---- MODULE Spec2Model ----
(***************************************************************************)
(* A model of the Sol compiler front end (aripiprazole/saph):              *)
(*   - the primitive registry (sol-hir/src/primitives.rs),                 *)
(*   - the HIR lowering of terms (sol-hir-lowering/src/term.rs),           *)
(*   - the THIR elaborator (sol-thir-lowering/src/check.rs, infer.rs) and  *)
(*     the closures of its value domain (sol-thir/src/value.rs).           *)
(* Each part has its own specification over the shared variables.          *)
(***************************************************************************)
EXTENDS Integers, Sequences, FiniteSets, TLC

VARIABLES
    \* ---- primitive registry (PrimitiveBag and the calls in flight)
    type_representations,   \* DashMap<String, Definition>
    type_definitions,       \* DashMap<Definition, TypeRep>
    created,                \* per name: how many Definitions Definition::new made
    pc,                     \* per thread: its position inside new_type_rep
    call,                   \* per thread: the call it runs
    definition,             \* per thread: the local `definition` of new_type_rep
    started,                \* number of calls started so far
    firstRep,               \* per name: the representation of the first register call
    observed,               \* the (name, result) pairs lookups have returned
    memo,                   \* per lookup query and name: the result the engine keeps
    \* ---- HIR lowering (one call of HirLowering::expr / type_expr)
    lw_in,                  \* the syntax tree, the level and the scope it starts in
    lw_out,                 \* the function called and what it returned
    \* ---- THIR elaboration and evaluation
    metas,                  \* the metavariable cells created so far
    elab,                   \* the last check / infer / unify call and its result
    nbe                     \* the last evaluation or closure application

registryVars ==
    <<type_representations, type_definitions, created, pc, call, definition,
      started, firstRep, observed, memo>>

lowerVars == <<lw_in, lw_out>>

thirVars == <<metas, elab, nbe>>

vars == <<registryVars, lowerVars, thirVars>>

(***************************************************************************)
(* Primitive registry                                                      *)
(***************************************************************************)

\* Bound: the number of register / initialize calls one run starts.
MaxCalls == 3

\* The threads the incremental engine runs queries on.
Threads == {"t1", "t2"}

\* The builtin list of initialize_primitive_bag, in its order.
Builtins ==
    << <<"String", "String">>, <<"Unit", "Unit">>, <<"Bool", "Bool">>,
       <<"Int", "Int32">>, <<"Int8", "Int8">>, <<"UInt8", "UInt8">>,
       <<"Int16", "Int16">>, <<"UInt16", "UInt16">>, <<"Int32", "Int32">>,
       <<"UInt32", "UInt32">>, <<"Int64", "Int64">>, <<"UInt64", "UInt64">>,
       <<"Nat", "Nat">> >>

BuiltinNames == {Builtins[i][1] : i \in 1..Len(Builtins)}

\* The names and representations direct register calls are drawn from.
RegNames == {"Int", "Bool"}
RegReps == {"Int32", "Int64"}

NoRep == "None"
NoDef == [name |-> "", k |-> 0]
\* A Definition handle: the k-th Definition created for `name`.
Def(name, k) == [name |-> name, k |-> k]

AllNames == BuiltinNames \cup RegNames

NoCall == [kind |-> "none", name |-> "", repr |-> NoRep, idx |-> 0]

\* Mutant of EntryOrInsert: a plain insert, which makes a Definition per call.
EntryAlwaysInsert(reps, made, name) ==
    LET d == Def(name, made[name] + 1)
    IN  [def |-> d,
         reps |-> [reps EXCEPT ![name] = d],
         made |-> [made EXCEPT ![name] = made[name] + 1]]

\* type_representations.entry(text).or_insert_with(|| Definition::new(..)):
\* one atomic insert-or-get on the map.
EntryOrInsert(reps, made, name) ==
    IF reps[name] # NoDef
    THEN [def |-> reps[name], reps |-> reps, made |-> made]
    ELSE LET d == Def(name, made[name] + 1)
         IN  [def |-> d,
              reps |-> [reps EXCEPT ![name] = d],
              made |-> [made EXCEPT ![name] = made[name] + 1]]

\* Mutant of MustDefine: the contains_key test left out.
MustDefineAlways(defs, d) == TRUE

\* !primitives.type_definitions.contains_key(&definition)
MustDefine(defs, d) == d \notin DOMAIN defs

\* primitives.type_definitions.insert(definition, repr)
InsertRep(defs, d, repr) ==
    [x \in DOMAIN defs \cup {d} |-> IF x = d THEN repr ELSE defs[x]]

\* The tracked lookup queries, and the memo of one that has not run.
Queries == {"primitive_type_rep", "primitive_type_definition"}
NotRun(query) ==
    [ran |-> FALSE, value |-> IF query = "primitive_type_rep" THEN NoRep ELSE NoDef]

\* primitive_type_definition: Option<Definition>
lookup_definition(name) == type_representations[name]

\* primitive_type_rep: Option<TypeRep>
lookup_type_rep(name) ==
    LET d == type_representations[name]
    IN  IF d = NoDef THEN NoRep
        ELSE IF d \in DOMAIN type_definitions THEN type_definitions[d]
        ELSE NoRep

InitRegistry ==
    /\ type_representations = [n \in AllNames |-> NoDef]
    /\ type_definitions = << >>
    /\ created = [n \in AllNames |-> 0]
    /\ pc = [t \in Threads |-> "idle"]
    /\ call = [t \in Threads |-> NoCall]
    /\ definition = [t \in Threads |-> NoDef]
    /\ started = 0
    /\ firstRep = [n \in AllNames |-> NoRep]
    /\ observed = {}
    /\ memo = [query \in Queries |-> [name \in RegNames |-> NotRun(query)]]

\* The first call for a name fixes the representation it asks for.
NoteFirst(first, name, repr) ==
    IF first[name] = NoRep THEN [first EXCEPT ![name] = repr] ELSE first

\* A thread calls new_type_rep(db, path, repr).
StartRegister(t, name, repr) ==
    /\ pc[t] = "idle"
    /\ started < MaxCalls
    /\ started' = started + 1
    /\ call' = [call EXCEPT ![t] = [kind |-> "register", name |-> name,
                                    repr |-> repr, idx |-> 0]]
    /\ pc' = [pc EXCEPT ![t] = "entry"]
    /\ firstRep' = NoteFirst(firstRep, name, repr)
    /\ UNCHANGED <<type_representations, type_definitions, created, definition,
                   observed, memo>>

\* A thread calls initialize_primitive_bag(db): its first new_type_rep.
StartInitialize(t) ==
    /\ pc[t] = "idle"
    /\ started < MaxCalls
    /\ started' = started + 1
    /\ call' = [call EXCEPT ![t] = [kind |-> "initialize",
                                    name |-> Builtins[1][1],
                                    repr |-> Builtins[1][2], idx |-> 1]]
    /\ pc' = [pc EXCEPT ![t] = "entry"]
    /\ firstRep' = NoteFirst(firstRep, Builtins[1][1], Builtins[1][2])
    /\ UNCHANGED <<type_representations, type_definitions, created, definition,
                   observed, memo>>

\* new_type_rep, lines 79-85: insert-or-get the Definition.
Entry(t) ==
    /\ pc[t] = "entry"
    /\ LET r == EntryOrInsert(type_representations, created, call[t].name)
       IN  /\ type_representations' = r.reps
           /\ created' = r.made
           /\ definition' = [definition EXCEPT ![t] = r.def]
    /\ pc' = [pc EXCEPT ![t] = "contains"]
    /\ UNCHANGED <<type_definitions, call, started, firstRep, observed, memo>>

\* new_type_rep, line 88: the contains_key test.
Contains(t) ==
    /\ pc[t] = "contains"
    /\ pc' = [pc EXCEPT ![t] =
                IF MustDefine(type_definitions, definition[t])
                THEN "insert" ELSE "return"]
    /\ UNCHANGED <<type_representations, type_definitions, created, call,
                   definition, started, firstRep, observed, memo>>

\* new_type_rep, line 89: the insert.
Insert(t) ==
    /\ pc[t] = "insert"
    /\ type_definitions' = InsertRep(type_definitions, definition[t], call[t].repr)
    /\ pc' = [pc EXCEPT ![t] = "return"]
    /\ UNCHANGED <<type_representations, created, call, definition, started,
                   firstRep, observed, memo>>

\* new_type_rep returns; initialize_primitive_bag goes on to its next builtin.
Return(t) ==
    /\ pc[t] = "return"
    /\ IF call[t].kind = "initialize" /\ call[t].idx < Len(Builtins)
       THEN LET i == call[t].idx + 1
            IN  /\ call' = [call EXCEPT ![t] = [kind |-> "initialize",
                                                name |-> Builtins[i][1],
                                                repr |-> Builtins[i][2],
                                                idx |-> i]]
                /\ pc' = [pc EXCEPT ![t] = "entry"]
                /\ firstRep' = NoteFirst(firstRep, Builtins[i][1], Builtins[i][2])
       ELSE /\ call' = [call EXCEPT ![t] = NoCall]
            /\ pc' = [pc EXCEPT ![t] = "idle"]
            /\ UNCHANGED firstRep
    /\ definition' = [definition EXCEPT ![t] = NoDef]
    /\ UNCHANGED <<type_representations, type_definitions, created, started,
                   observed, memo>>

\* A reader calls primitive_type_rep for one of the names under contention.
Lookup(name) ==
    /\ lookup_type_rep(name) # NoRep
    /\ <<name, lookup_type_rep(name)>> \notin observed
    /\ observed' = observed \cup {<<name, lookup_type_rep(name)>>}
    /\ UNCHANGED <<type_representations, type_definitions, created, pc, call,
                   definition, started, firstRep, memo>>

\* The engine's memo of a tracked query (#[salsa::tracked]): the query runs when
\* the engine holds no result for its input at the revision, and the result is
\* kept; otherwise the kept result is returned and the query does not run.
Tracked(query, name) ==
    IF memo[query][name].ran THEN memo[query][name].value
    ELSE IF query = "primitive_type_rep" THEN lookup_type_rep(name)
    ELSE lookup_definition(name)

\* A caller asks the database for primitive_type_rep(path) or
\* primitive_type_definition(path).
TrackedLookup(query, name) ==
    /\ ~memo[query][name].ran
    /\ memo' = [memo EXCEPT ![query][name] =
                   [ran |-> TRUE, value |-> Tracked(query, name)]]
    /\ UNCHANGED <<type_representations, type_definitions, created, pc, call,
                   definition, started, firstRep, observed>>

Step(t) == Entry(t) \/ Contains(t) \/ Insert(t) \/ Return(t)

\* No call is running.
AllIdle == \A t \in Threads : pc[t] = "idle"

(***************************************************************************)
(* HIR lowering of terms                                                   *)
(***************************************************************************)
\* Bound: the number of parameters of a lambda in the syntax trees.
MaxParams == 2

\* ---- syntax trees (sol_syntax nodes): a kind, the text of an identifier, children
Node(k, name, kids) == [k |-> k, name |-> name, kids |-> kids]

\* A child the parser did not produce (solve falls back to the default).
Missing == Node("Missing", "", << >>)
PathN(name) == Node("Path", name, << >>)
UniverseN == Node("Universe", "", << >>)
BindingN(name) == Node("Binding", name, << >>)
ParameterN(name, type) == Node("Parameter", name, <<type>>)
LamN(patterns, value) == Node("Lam", "", <<Node("Patterns", "", patterns), value>>)
PiN(parameter, value) == Node("Pi", "", <<parameter, value>>)
SigmaN(items, value) == Node("Sigma", "", <<Node("Items", "", items), value>>)
IfN(c, t, e) == Node("If", "", <<c, t, e>>)
\* `return value`, and a bare `return`, which has no value child at all.
ReturnN(value) == Node("Return", "", <<value>>)
ReturnUnitN == Node("Return", "", << >>)
TypeAppN(callee, arguments) ==
    Node("TypeApp", "", <<callee, Node("Arguments", "", arguments)>>)
\* A free variable `^name`: the characters of its source text, the sigil first.
FreeVariableN(text) ==
    Node("FreeVariable", "", [i \in 1..Len(text) |-> Node("Char", text[i], << >>)])

\* A block `{ statements }`, and an application: the callee, the arguments and
\* the trailing blocks, its children in source order.
BlockN(statements) == Node("Block", "", statements)
AppN(callee, arguments, blocks) ==
    Node("App", "", <<callee, Node("Arguments", "", arguments)>> \o blocks)

\* The kinds `primary` handles.
PrimaryKinds == {"Path", "Universe", "If", "Return", "FreeVariable"}

\* Names: x and y are bound by patterns, f is a global function, T a global
\* type, foo is defined nowhere.
BinderNames == {"x", "y"}
Globals(kind) == IF kind = "Function" THEN {"f"} ELSE {"T"}

SeqsUpTo(S, n) == UNION {[1..m -> S] : m \in 0..n}

PatternLists == SeqsUpTo({BindingN(n) : n \in BinderNames}, MaxParams)

LamTrees(K) == {LamN(ps, b) : ps \in PatternLists, b \in K}

PiParameterNodes(K) ==
    {Missing}
        \cup {Node(pk, "", <<ParameterN("x", t)>>) :
                pk \in {"PiParameters", "ForallParameters"}, t \in K}
        \cup (K \ {Missing})

PiTrees(K) == {PiN(p, b) : p \in PiParameterNodes(K), b \in K}

SigmaItems(K) ==
    {<< >>, <<BindingN("x")>>, <<BindingN("x"), BindingN("y")>>}
        \cup {<<ParameterN("x", t)>> : t \in K}

SigmaTrees(K) == {SigmaN(items, b) : items \in SigmaItems(K), b \in K}

IfTrees(K) == {IfN(c, t, e) : c \in K, t \in K, e \in K}

ReturnTrees(K) == {ReturnUnitN} \cup {ReturnN(v) : v \in K}

\* Type applications: the callee and the arguments are primaries.
TypeAppTrees(K) ==
    {TypeAppN(c, as) : c \in K, as \in SeqsUpTo(K \ {Missing}, MaxParams)}

Build(K) ==
    LamTrees(K) \cup PiTrees(K) \cup SigmaTrees(K) \cup IfTrees(K) \cup ReturnTrees(K)

Leaves ==
    {PathN("x"), PathN("f"), PathN("T"), PathN("foo"), UniverseN,
     FreeVariableN(<<"^", "a">>), FreeVariableN(<<"^", "x">>),
     FreeVariableN(<<"^", "a", "b">>)}
Kids0 == {Missing, PathN("x"), PathN("foo")}
Kids1 ==
    {PathN("x"), PathN("foo"),
     LamN(<<BindingN("x")>>, PathN("x")),
     PiN(Node("PiParameters", "", <<ParameterN("x", PathN("foo"))>>), PathN("x")),
     SigmaN(<<BindingN("y")>>, PathN("y")),
     IfN(PathN("x"), PathN("foo"), Missing)}
Kids2 ==
    {LamN(<<BindingN("x")>>, ReturnN(PathN("x"))), ReturnN(PathN("foo")),
     FreeVariableN(<<"^", "a">>)}

\* The trees of expressions, and those of type expressions, which may be
\* type applications as well.
Trees == Leaves \cup Build(Kids0) \cup Build(Kids1) \cup LamTrees(Kids2) \cup IfTrees(Kids2)
TypeTrees == Trees \cup TypeAppTrees(Kids0 \cup {PathN("T"), ReturnUnitN})

\* Applications: a callee, primaries as arguments, and trailing blocks.
MaxBlocks == 3
BlockNodes ==
    {BlockN(<< >>), BlockN(<<PathN("foo")>>), BlockN(<<ReturnN(PathN("x"))>>)}
AppTrees ==
    {AppN(c, as, bs) : c \in {Missing, PathN("f")},
                       as \in SeqsUpTo({PathN("x")}, MaxParams),
                       bs \in SeqsUpTo(BlockNodes, MaxBlocks)}
ExprTrees == Trees \cup AppTrees

Levels == {"Expr", "Type"}

\* ---- locations: a node's span is its path from the root of the tree
CallSite == <<0>>
Child(pos, i) == Append(pos, i)

\* ---- the lowering context: the scope chain (current scope last), the
\* diagnostics sink, and the fork / pop calls made so far
RootScopes ==
    {<<[kind |-> k, names |-> ns]>> : k \in {"File", "DoNotation"}, ns \in {{}, {"x"}}}

NewState(scope) == [scope |-> scope, diags |-> << >>, ev |-> << >>, free |-> << >>]

Ret(v, st) == [v |-> v, st |-> st]

\* `let name = value;`: the value, computed once and before what follows,
\* under a name in what follows.
Bind(value, rest(_)) ==
    CHOOSE result \in {rest(computed) : computed \in {value}} : TRUE

\* Scope::fork(kind): a child scope linked to the current one.
fork(st, kind) ==
    [st EXCEPT !.scope = Append(@, [kind |-> kind, names |-> {}]),
               !.ev = Append(@, [op |-> "fork", kind |-> kind, scope |-> st.scope])]

\* pop_scope(): detaches the child and returns its snapshot; the parent is
\* current again.
pop_scope(st) ==
    LET n == Len(st.scope)
        parent == SubSeq(st.scope, 1, n - 1)
    IN  Ret(st.scope[n],
            [st EXCEPT !.scope = parent,
                       !.ev = Append(@, [op |-> "pop", kind |-> st.scope[n].kind,
                                         scope |-> parent])])

\* Scope::define: a pattern binds its name in the current scope.
define(st, name) ==
    [st EXCEPT !.scope[Len(st.scope)].names = @ \cup {name}]

\* qualify(path, kind): the scope chain first, then the global query of the
\* kind; otherwise an unresolved placeholder and an Unresolved diagnostic.
qualify(st, path, kind) ==
    IF \E i \in 1..Len(st.scope) : path.name \in st.scope[i].names
    THEN Ret([name |-> path.name, kind |-> "Variable", resolved |-> TRUE], st)
    ELSE IF path.name \in Globals(kind)
    THEN Ret([name |-> path.name, kind |-> kind, resolved |-> TRUE], st)
    ELSE Ret([name |-> path.name, kind |-> kind, resolved |-> FALSE],
             [st EXCEPT !.diags = Append(@, [kind |-> "Unresolved",
                                             label |-> path.location])])

\* Scope::using(db, definition, location): the Reference of a use.
using(def, location) == [definition |-> def, location |-> location]

\* The default a missing child lowers to.
DefaultExpr == [e |-> "Empty", location |-> CallSite]

\* Expr::upgrade / TypeRep::downgrade: wrap and unwrap.
upgrade(e) == [expr |-> e]
downgrade(t) == t.expr

DefaultTypeRep == upgrade(DefaultExpr)

\* HirLowering::pattern: a binding pattern defines its name.
pattern(node, pos, st) ==
    Ret([p |-> "Binding", name |-> node.name, location |-> pos],
        define(st, node.name))

RECURSIVE expr(_, _, _, _)
RECURSIVE type_expr(_, _, _)
RECURSIVE primary(_, _, _, _)
RECURSIVE if_expr(_, _, _, _)
RECURSIVE lam_expr(_, _, _, _)
RECURSIVE pi_expr(_, _, _)
RECURSIVE sigma_expr(_, _, _)
RECURSIVE parameter(_, _, _, _, _)
RECURSIVE pi_parameters(_, _, _, _, _)
RECURSIVE sigma_parameters(_, _, _, _, _)
RECURSIVE patterns(_, _, _, _, _)
RECURSIVE solve(_, _, _, _, _)
RECURSIVE return_expr(_, _, _, _)
RECURSIVE type_app_expr(_, _, _)
RECURSIVE statements(_, _, _, _, _, _)
RECURSIVE app_arguments(_, _, _, _, _, _)
RECURSIVE app_blocks(_, _, _, _, _, _)

\* node.solve(self, |this, node| this.expr(node, level)) and
\* node.solve(self, |this, node| this.type_expr(node)): the lowering of a
\* child by the given function, or the default where the child is missing.
solve(f, tree, pos, level, st) ==
    IF f = "expr"
    THEN IF tree = Missing THEN Ret(DefaultExpr, st) ELSE expr(tree, pos, level, st)
    ELSE IF tree = Missing THEN Ret(DefaultTypeRep, st) ELSE type_expr(tree, pos, st)

\* lam_expr, lines 143-148: the patterns of the parameters, in order.
patterns(nodes, i, pos, st, acc) ==
    IF i > Len(nodes) THEN Ret(acc, st)
    ELSE Bind(pattern(nodes[i], Child(pos, i), st), LAMBDA r :
         patterns(nodes, i + 1, pos, r.st, Append(acc, r.v)))

\* HirLowering::parameter: the binding and the declared type of a parameter.
parameter(is_implicit, rigid, node, pos, st) ==
    Bind(pattern(node, pos, st), LAMBDA b :
    Bind(solve("type_expr", node.kids[1], Child(pos, 1), "Type", b.st), LAMBDA t :
    Ret([binding |-> b.v, type_rep |-> t.v, is_implicit |-> is_implicit,
         rigid |-> rigid, location |-> pos], t.st)))

\* pi_expr, lines 240-256: every parameter of a parameter list.
pi_parameters(nodes, i, pos, st, acc) ==
    IF i > Len(nodes) THEN Ret(acc, st)
    ELSE Bind(parameter(FALSE, TRUE, nodes[i], Child(pos, i), st), LAMBDA r :
         pi_parameters(nodes, i + 1, pos, r.st, Append(acc, r.v)))

\* Parameter::unnamed(db, type_rep)
UnnamedParameter(type_rep) ==
    [binding |-> [p |-> "Hole", name |-> "", location |-> CallSite],
     type_rep |-> type_rep, is_implicit |-> FALSE, rigid |-> FALSE,
     location |-> CallSite]

\* sigma_expr, lines 285-319: a parameter, or a bare pattern typed by a hole.
sigma_parameters(nodes, i, pos, st, acc) ==
    IF i > Len(nodes) THEN Ret(acc, st)
    ELSE Bind(IF nodes[i].k = "Parameter"
              THEN parameter(TRUE, TRUE, nodes[i], Child(pos, i), st)
              ELSE Bind(pattern(nodes[i], Child(pos, i), st), LAMBDA b :
                   Ret([binding |-> b.v,
                        type_rep |-> upgrade([e |-> "Hole",
                                              location |-> b.v.location]),
                        is_implicit |-> TRUE, rigid |-> FALSE,
                        location |-> b.v.location], b.st)), LAMBDA r :
         sigma_parameters(nodes, i + 1, pos, r.st, Append(acc, r.v)))

\* lam_expr
lam_expr(tree, pos, level, st) ==
    Bind(patterns(tree.kids[1].kids, 1, Child(pos, 1), fork(st, "Lambda"), << >>),
         LAMBDA ps :
    Bind(solve("expr", tree.kids[2], Child(pos, 2), level, ps.st), LAMBDA value :
    Bind(pop_scope(value.st), LAMBDA scope :
    Ret([e |-> "Lam", parameters |-> ps.v, value |-> value.v,
         location |-> pos, scope |-> scope.v], scope.st))))

\* pi_expr, lines 238-264: the parameter list, or one unnamed parameter.
PiParameterList(node, pos, st) ==
    IF node = Missing THEN Ret(<< >>, st)
    ELSE IF node.k \in {"PiParameters", "ForallParameters"}
    THEN pi_parameters(node.kids, 1, pos, st, << >>)
    ELSE Bind(type_expr(node, pos, st), LAMBDA t :
         Ret(<<UnnamedParameter(t.v)>>, t.st))

\* Mutant of pi_expr: the `return` of the parameter-list branches leaves
\* pi_expr itself, before the scope is popped.
pi_expr_early_return(tree, pos, st) ==
    Bind(PiParameterList(tree.kids[1], Child(pos, 1), fork(st, "Pi")), LAMBDA ps :
    Bind(solve("type_expr", tree.kids[2], Child(pos, 2), "Type", ps.st), LAMBDA value :
    Bind(pop_scope(value.st), LAMBDA popped :
    IF tree.kids[1].k \in {"PiParameters", "ForallParameters"}
    THEN Ret(upgrade([e |-> "Pi", parameters |-> ps.v,
                      value |-> DefaultTypeRep, location |-> pos]), ps.st)
    ELSE Ret(upgrade([e |-> "Pi", parameters |-> ps.v, value |-> value.v,
                      location |-> pos]), popped.st))))

\* pi_expr
pi_expr(tree, pos, st) ==
    Bind(PiParameterList(tree.kids[1], Child(pos, 1), fork(st, "Pi")), LAMBDA ps :
    Bind(solve("type_expr", tree.kids[2], Child(pos, 2), "Type", ps.st), LAMBDA value :
    Bind(pop_scope(value.st), LAMBDA popped :
    Ret(upgrade([e |-> "Pi", parameters |-> ps.v, value |-> value.v,
                 location |-> pos]), popped.st))))

\* sigma_expr
sigma_expr(tree, pos, st) ==
    Bind(sigma_parameters(tree.kids[1].kids, 1, Child(pos, 1), fork(st, "Sigma"), << >>),
         LAMBDA ps :
    Bind(solve("type_expr", tree.kids[2], Child(pos, 2), "Type", ps.st), LAMBDA value :
    Bind(pop_scope(value.st), LAMBDA popped :
    Ret(upgrade([e |-> "Sigma", parameters |-> ps.v, value |-> value.v,
                 location |-> pos]), popped.st))))

\* Expr::location
location(e) == IF e.e = "Path" THEN e.reference.location ELSE e.location

LiteralTrue == [p |-> "Literal", name |-> "true", location |-> CallSite]
LiteralFalse == [p |-> "Literal", name |-> "false", location |-> CallSite]

MatchArm(pat, value) == [pattern |-> pat, location |-> location(value), value |-> value]

\* Mutant of if_expr: the two arms in the other order.
if_expr_swapped(tree, pos, level, st) ==
    Bind(solve("expr", tree.kids[1], Child(pos, 1), level, st), LAMBDA scrutinee :
    Bind(solve("expr", tree.kids[2], Child(pos, 2), level, scrutinee.st), LAMBDA then :
    Bind(solve("expr", tree.kids[3], Child(pos, 3), level, then.st), LAMBDA otherwise :
    Ret([e |-> "Match", kind |-> "If", scrutinee |-> scrutinee.v,
         clauses |-> <<MatchArm(LiteralFalse, otherwise.v),
                       MatchArm(LiteralTrue, then.v)>>,
         location |-> pos], otherwise.st))))

\* if_expr
if_expr(tree, pos, level, st) ==
    Bind(solve("expr", tree.kids[1], Child(pos, 1), level, st), LAMBDA scrutinee :
    Bind(solve("expr", tree.kids[2], Child(pos, 2), level, scrutinee.st), LAMBDA then :
    Bind(solve("expr", tree.kids[3], Child(pos, 3), level, then.st), LAMBDA otherwise :
    Ret([e |-> "Match", kind |-> "If", scrutinee |-> scrutinee.v,
         clauses |-> <<MatchArm(LiteralTrue, then.v),
                       MatchArm(LiteralFalse, otherwise.v)>>,
         location |-> pos], otherwise.st))))

\* Scope::is_do_notation_scope: the current scope is one of a do-notation.
is_do_notation_scope(st) == st.scope[Len(st.scope)].kind = "DoNotation"

\* Expr::call_unit_expr(location): the unit expression.
call_unit_expr(loc) ==
    [e |-> "Call", kind |-> "Prefix", callee |-> "Unit", arguments |-> << >>,
     do_notation |-> "None", location |-> loc]

\* Mutant of return_expr: the test of the scope is inverted.
return_expr_inverted(tree, pos, level, st) ==
    Bind(IF is_do_notation_scope(st)
         THEN [st EXCEPT !.diags = Append(@, [kind |-> "ReturnOutsideDoNotation",
                                              label |-> pos])]
         ELSE st, LAMBDA reported :
    Bind(IF tree.kids = << >> THEN Ret(call_unit_expr(pos), reported)
         ELSE solve("expr", tree.kids[1], Child(pos, 1), level, reported),
         LAMBDA value :
    Ret([e |-> "Call", kind |-> "Prefix", callee |-> "Pure",
         arguments |-> <<value.v>>, do_notation |-> "None", location |-> pos],
        value.st)))

\* return_expr
return_expr(tree, pos, level, st) ==
    Bind(IF ~is_do_notation_scope(st)
         THEN [st EXCEPT !.diags = Append(@, [kind |-> "ReturnOutsideDoNotation",
                                              label |-> pos])]
         ELSE st, LAMBDA reported :
    Bind(IF tree.kids = << >> THEN Ret(call_unit_expr(pos), reported)
         ELSE solve("expr", tree.kids[1], Child(pos, 1), level, reported),
         LAMBDA value :
    Ret([e |-> "Call", kind |-> "Prefix", callee |-> "Pure",
         arguments |-> <<value.v>>, do_notation |-> "None", location |-> pos],
        value.st)))

\* HirLowering::path: the HirPath of an identifier.
path(tree, pos) == [name |-> tree.name, location |-> pos]

\* Mutant of PrimaryPath: a name that is no function is looked up again as a
\* type, so an undefined name is diagnosed twice.
PrimaryPathTwice(tree, pos, level, st) ==
    Bind(qualify(st, path(tree, pos), "Function"), LAMBDA first :
    Bind(IF first.v.resolved THEN first
         ELSE qualify(first.st, path(tree, pos), "Type"), LAMBDA def :
    Ret([e |-> "Path", reference |-> using(def.v, pos)], def.st)))

\* primary, lines 524-542: a path.
PrimaryPath(tree, pos, level, st) ==
    Bind(IF level = "Expr"
         THEN qualify(st, path(tree, pos), "Function")
         ELSE qualify(st, path(tree, pos), "Type"), LAMBDA def :
    Ret([e |-> "Path", reference |-> using(def.v, pos)], def.st))

RECURSIVE Symbol(_, _)
\* &text[from..text.len()]: the text from a character on, as one name.
Symbol(text, from) ==
    IF from > Len(text) THEN "" ELSE text[from] \o Symbol(text, from + 1)

\* identifier.utf8_text(source): the source text of a node, its characters.
utf8_text(tree) == [i \in 1..Len(tree.kids) |-> tree.kids[i].name]

\* Scope::insert_free_variable(db, path): registers the name as a free variable
\* and returns its Reference.
insert_free_variable(st, free_path) ==
    Ret(using([name |-> free_path.name, kind |-> "FreeVariable", resolved |-> TRUE],
              free_path.location),
        [st EXCEPT !.free = Append(@, free_path.name)])

\* primary, lines 543-565: a free variable, at either level.
PrimaryFreeVariable(tree, pos, level, st) ==
    Bind([name |-> Symbol(utf8_text(tree), 2), location |-> pos], LAMBDA free_path :
    Bind(insert_free_variable(st, free_path), LAMBDA reference :
    Ret([e |-> "Path", reference |-> reference.v], reference.st)))

\* primary
primary(tree, pos, level, st) ==
    IF tree.k = "If" THEN if_expr(tree, pos, level, st)
    ELSE IF tree.k = "Return" THEN return_expr(tree, pos, level, st)
    ELSE IF tree.k = "Path" THEN PrimaryPath(tree, pos, level, st)
    ELSE IF tree.k = "FreeVariable" THEN PrimaryFreeVariable(tree, pos, level, st)
    ELSE Ret([e |-> "Type", type |-> "Universe", location |-> pos], st)

RECURSIVE primaries(_, _, _, _, _)
\* type_app_expr, lines 209-214: the arguments, each a primary at the type
\* level, upgraded.
primaries(nodes, i, pos, st, acc) ==
    IF i > Len(nodes) THEN Ret(acc, st)
    ELSE Bind(primary(nodes[i], Child(pos, i), "Type", st), LAMBDA r :
         primaries(nodes, i + 1, pos, r.st, Append(acc, upgrade(r.v))))

\* type_app_expr
type_app_expr(tree, pos, st) ==
    Bind(IF tree.kids[1] = Missing THEN Ret(DefaultTypeRep, st)
         ELSE Bind(primary(tree.kids[1], Child(pos, 1), "Type", st),
                   LAMBDA r : Ret(upgrade(r.v), r.st)), LAMBDA callee :
    Bind(primaries(tree.kids[2].kids, 1, Child(pos, 2), callee.st, << >>),
         LAMBDA arguments :
    Ret(upgrade([e |-> "Call", kind |-> "Prefix", callee |-> downgrade(callee.v),
                 arguments |-> [i \in 1..Len(arguments.v) |->
                                   downgrade(arguments.v[i])],
                 do_notation |-> "None", location |-> pos]),
        arguments.st)))

\* The statements of a block, each an expression, in order.
statements(nodes, i, pos, level, st, acc) ==
    IF i > Len(nodes) THEN Ret(acc, st)
    ELSE Bind(solve("expr", nodes[i], Child(pos, i), level, st), LAMBDA r :
         statements(nodes, i + 1, pos, level, r.st, Append(acc, r.v)))

\* HirLowering::block: the statements of a block, lowered in a do-notation
\* scope of their own.
block(tree, pos, level, st) ==
    Bind(statements(tree.kids, 1, pos, level, fork(st, "DoNotation"), << >>),
         LAMBDA lowered :
    Bind(pop_scope(lowered.st), LAMBDA scope :
    Ret([statements |-> lowered.v, location |-> pos, scope |-> scope.v], scope.st)))

\* app_expr, lines 174-179: the arguments, each a primary at the level.
app_arguments(nodes, i, pos, level, st, acc) ==
    IF i > Len(nodes) THEN Ret(acc, st)
    ELSE Bind(primary(nodes[i], Child(pos, i), level, st), LAMBDA r :
         app_arguments(nodes, i + 1, pos, level, r.st, Append(acc, r.v)))

\* Mutant of app_blocks: the scan stops at the first block, which is kept.
app_blocks_first(kids, i, pos, level, st, acc) ==
    IF i > Len(kids) THEN Ret(acc, st)
    ELSE IF kids[i].k # "Block" THEN app_blocks(kids, i + 1, pos, level, st, acc)
    ELSE block(kids[i], Child(pos, i), level, st)

\* app_expr, lines 181-187: every child that is a block is lowered, in child
\* order, and `last()` keeps the one lowered last.
app_blocks(kids, i, pos, level, st, acc) ==
    IF i > Len(kids) THEN Ret(acc, st)
    ELSE IF kids[i].k # "Block" THEN app_blocks(kids, i + 1, pos, level, st, acc)
    ELSE Bind(block(kids[i], Child(pos, i), level, st), LAMBDA r :
         app_blocks(kids, i + 1, pos, level, r.st, r.v))

\* app_expr
app_expr(tree, pos, level, st) ==
    Bind(IF tree.kids[1] = Missing THEN Ret(DefaultExpr, st)
         ELSE primary(tree.kids[1], Child(pos, 1), level, st), LAMBDA callee :
    Bind(app_arguments(tree.kids[2].kids, 1, Child(pos, 2), level, callee.st, << >>),
         LAMBDA arguments :
    Bind(app_blocks(tree.kids, 1, pos, level, arguments.st, "None"),
         LAMBDA do_notation :
    Ret([e |-> "Call", kind |-> "Infix", callee |-> callee.v,
         arguments |-> arguments.v, do_notation |-> do_notation.v,
         location |-> pos],
        do_notation.st))))

\* expr
expr(tree, pos, level, st) ==
    IF tree.k \in PrimaryKinds THEN primary(tree, pos, level, st)
    ELSE IF tree.k = "App" THEN app_expr(tree, pos, level, st)
    ELSE IF tree.k = "Lam" THEN lam_expr(tree, pos, level, st)
    ELSE IF tree.k = "Pi"
    THEN Bind(pi_expr(tree, pos, st), LAMBDA r : Ret(downgrade(r.v), r.st))
    ELSE Bind(sigma_expr(tree, pos, st), LAMBDA r : Ret(downgrade(r.v), r.st))

\* Mutant of type_expr: a primary is lowered at the expression level.
type_expr_expr_level(tree, pos, st) ==
    IF tree.k \in PrimaryKinds
    THEN Bind(primary(tree, pos, "Expr", st), LAMBDA r : Ret(upgrade(r.v), r.st))
    ELSE IF tree.k = "Lam"
    THEN Bind(lam_expr(tree, pos, "Type", st), LAMBDA r : Ret(upgrade(r.v), r.st))
    ELSE IF tree.k = "Pi" THEN pi_expr(tree, pos, st)
    ELSE IF tree.k = "Sigma" THEN sigma_expr(tree, pos, st)
    ELSE type_app_expr(tree, pos, st)

\* type_expr
type_expr(tree, pos, st) ==
    IF tree.k \in PrimaryKinds
    THEN Bind(primary(tree, pos, "Type", st), LAMBDA r : Ret(upgrade(r.v), r.st))
    ELSE IF tree.k = "Lam"
    THEN Bind(lam_expr(tree, pos, "Type", st), LAMBDA r : Ret(upgrade(r.v), r.st))
    ELSE IF tree.k = "Pi" THEN pi_expr(tree, pos, st)
    ELSE IF tree.k = "Sigma" THEN sigma_expr(tree, pos, st)
    ELSE type_app_expr(tree, pos, st)

\* ---- one lowering call
NoOutput == [fn |-> "none", v |-> DefaultExpr, st |-> NewState(<< >>)]

IdleLowering ==
    /\ lw_in = [tree |-> Missing, level |-> "Expr", scope |-> << >>]
    /\ lw_out = NoOutput

InitLowering ==
    /\ lw_in \in [tree : TypeTrees \cup AppTrees, level : Levels, scope : RootScopes]
    /\ lw_in.level = "Expr" => lw_in.tree \in ExprTrees
    /\ lw_out = NoOutput

\* The lowering calls expr(tree, level).
CallExpr ==
    /\ lw_out.fn = "none"
    /\ lw_in.tree \in ExprTrees
    /\ LET r == expr(lw_in.tree, << >>, lw_in.level, NewState(lw_in.scope))
       IN  lw_out' = [fn |-> "expr", v |-> r.v, st |-> r.st]
    /\ UNCHANGED lw_in

\* The lowering calls type_expr(tree).
CallTypeExpr ==
    /\ lw_out.fn = "none"
    /\ lw_in.level = "Type"
    /\ lw_in.tree \in TypeTrees
    /\ LET r == type_expr(lw_in.tree, << >>, NewState(lw_in.scope))
       IN  lw_out' = [fn |-> "type_expr", v |-> downgrade(r.v), st |-> r.st]
    /\ UNCHANGED lw_in

(***************************************************************************)
(* THIR: values and closures, evaluation, bidirectional elaboration        *)
(***************************************************************************)

\* ---- core terms (sol_thir::Term)
NoName == ""
TU == [t |-> "U"]
TConstructor(kind, loc) == [t |-> "Constructor", kind |-> kind, location |-> loc]
TVar(idx) == [t |-> "Var", idx |-> idx]
TLam(name, icit, body) == [t |-> "Lam", name |-> name, icit |-> icit, body |-> body]
TPi(name, icit, domain, codomain) ==
    [t |-> "Pi", name |-> name, icit |-> icit, domain |-> domain, codomain |-> codomain]
TInsertedMeta(m) == [t |-> "InsertedMeta", meta |-> m]
TApp(callee, arg, icit) == [t |-> "App", callee |-> callee, arg |-> arg, icit |-> icit]
\* The term of Value::default()
TDefault == [t |-> "Default"]
NoTerm == [t |-> "None"]

\* ---- values (sol_thir::value::Value) and closures
VU == [v |-> "U"]
VConstructor(kind, loc) == [v |-> "Constructor", kind |-> kind, location |-> loc]
VFlexible(m, spine) == [v |-> "Flexible", meta |-> m, spine |-> spine]
VRigid(lvl, spine) == [v |-> "Rigid", lvl |-> lvl, spine |-> spine]
Closure(env, term) == [env |-> env, expr |-> term]
VPi(name, icit, domain, closure) ==
    [v |-> "Pi", name |-> name, icit |-> icit, domain |-> domain, codomain |-> closure]
VLam(name, icit, closure) == [v |-> "Lam", name |-> name, icit |-> icit, closure |-> closure]
VLocation(loc, value) == [v |-> "Location", location |-> loc, value |-> value]
\* What evaluation yields where the evaluator stops with a failure.
VError == [v |-> "Error"]
\* Value::default()
ValueDefault == [v |-> "Default"]

\* Value::new_var(lvl, _reference)
new_var(lvl) == VRigid(lvl, << >>)

\* Env::push(db, value): the environment with one more binding, the newest last.
EnvPush(env, value) == Append(env, value)

EvalCall(env, term) == [env |-> env, expr |-> term]
Evaluated(v, calls) == [v |-> v, calls |-> calls]

RECURSIVE eval(_, _)
\* thir_eval(env, term): the value of a term and the thir_eval calls made for
\* it. A Lam or Pi captures the environment and keeps its body as a term.
eval(env, term) ==
    CASE term.t = "U" -> Evaluated(VU, <<EvalCall(env, term)>>)
      [] term.t = "Constructor" ->
           Evaluated(VConstructor(term.kind, term.location), <<EvalCall(env, term)>>)
      [] term.t = "Var" ->
           IF term.idx >= 0 /\ term.idx < Len(env)
           THEN Evaluated(env[Len(env) - term.idx], <<EvalCall(env, term)>>)
           ELSE Evaluated(VError, <<EvalCall(env, term)>>)
      [] term.t = "InsertedMeta" ->
           Evaluated(VFlexible(term.meta, << >>), <<EvalCall(env, term)>>)
      [] term.t = "Default" -> Evaluated(ValueDefault, <<EvalCall(env, term)>>)
      [] term.t = "Lam" ->
           Evaluated(VLam(term.name, term.icit, Closure(env, term.body)),
                     <<EvalCall(env, term)>>)
      [] term.t = "Pi" ->
           Bind(eval(env, term.domain), LAMBDA d :
           Evaluated(VPi(term.name, term.icit, d.v, Closure(env, term.codomain)),
                     <<EvalCall(env, term)>> \o d.calls))
      [] OTHER -> Evaluated(VError, <<EvalCall(env, term)>>)

\* Mutant of apply: the body is evaluated in the captured environment as it
\* is, without the applied value.
apply_without_push(closure, value) ==
    eval(closure.env, closure.expr)

\* Closure::apply(self, db, value)
apply(closure, value) ==
    Bind(EnvPush(closure.env, value), LAMBDA closure_env :
    eval(closure_env, closure.expr))

RECURSIVE quote(_, _)
\* thir_quote(lvl, value): the term of a value at a De Bruijn level.
quote(lvl, value) ==
    CASE value.v = "U" -> TU
      [] value.v = "Constructor" -> TConstructor(value.kind, value.location)
      [] value.v = "Rigid" -> TVar(lvl - value.lvl - 1)
      [] value.v = "Flexible" -> TInsertedMeta(value.meta)
      [] value.v = "Default" -> TDefault
      [] value.v = "Location" -> quote(lvl, value.value)
      [] value.v = "Lam" ->
           TLam(value.name, value.icit,
                quote(lvl + 1, apply(value.closure, new_var(lvl)).v))
      [] value.v = "Pi" ->
           TPi(value.name, value.icit, quote(lvl, value.domain),
               quote(lvl + 1, apply(value.codomain, new_var(lvl)).v))
      [] OTHER -> NoTerm

\* ---- the typing context (sol_thir Context): level, environment, bindings
Context(lvl, locals, bindings) == [lvl |-> lvl, locals |-> locals, bindings |-> bindings]
EmptyContext == Context(0, << >>, << >>)

\* Context::create_new_value(db, name, type): a new context, one binder deeper.
create_new_value(ctx, name, type) ==
    Context(ctx.lvl + 1, EnvPush(ctx.locals, new_var(ctx.lvl)),
            Append(ctx.bindings, [name |-> name, type |-> type]))

\* Context::insert_new_binder(db, name, type)
insert_new_binder(ctx, name, type) ==
    Context(ctx.lvl + 1, EnvPush(ctx.locals, new_var(ctx.lvl)),
            Append(ctx.bindings, [name |-> name, type |-> type]))

\* ---- HIR expressions as the elaborator sees them (sol_hir::source::expr::Expr)
EEmpty(loc) == [e |-> "Empty", loc |-> loc]
EError(loc) == [e |-> "Error", loc |-> loc]
EMatch(loc) == [e |-> "Match", loc |-> loc]
ESigma(loc) == [e |-> "Sigma", loc |-> loc]
EPath(name, loc) == [e |-> "Path", name |-> name, loc |-> loc]
ELiteral(value, loc) == [e |-> "Literal", value |-> value, loc |-> loc]
EType(def, loc) == [e |-> "Type", definition |-> def, loc |-> loc]
EAnn(value, type_rep, loc) == [e |-> "Ann", value |-> value, type_rep |-> type_rep, loc |-> loc]
ECall(loc) == [e |-> "Call", loc |-> loc]
ELam(parameters, value, loc) ==
    [e |-> "Lam", parameters |-> parameters, value |-> value, loc |-> loc]
EPi(parameters, value, loc) ==
    [e |-> "Pi", parameters |-> parameters, value |-> value, loc |-> loc]
EHole(loc) == [e |-> "Hole", loc |-> loc]
\* A parameter of a Pi: the name its Binding pattern binds (NoName for any
\* other pattern), its implicitness flag and its declared type.
EParameter(name, implicit, type_rep) ==
    [name |-> name, is_implicit |-> implicit, parameter_type |-> type_rep]

\* Curried::Lam(definition, value) | Curried::Expr(expr)
CurriedLam(def, value) == [c |-> "Lam", definition |-> def, value |-> value]
CurriedExpr(e) == [c |-> "Expr", expr |-> e]

RECURSIVE CurryFrom(_, _, _)
CurryFrom(parameters, i, value) ==
    IF i > Len(parameters) THEN CurriedExpr(value)
    ELSE CurriedLam(parameters[i], CurryFrom(parameters, i + 1, value))

\* new_curried_function(db, abs): the parameter chain of a lambda.
new_curried_function(abs) == CurryFrom(abs.parameters, 1, abs.value)

\* ---- elaboration state: metavariable cells, reported diagnostics and the
\* thir_eval calls made so far
NoSolution == [v |-> "None"]
NoValue == [v |-> "None"]
NoError == [kind |-> "None"]
ThirState(cells) == [metas |-> cells, diags |-> << >>, evals |-> << >>]

\* MetaVar::new(solution): a new cell holding the given solution, if any. A
\* cell also remembers what it held when it was created and how many times
\* its solution has been written since.
MetaVarNew(st, solution) ==
    [meta |-> Len(st.metas) + 1,
     st |-> [st EXCEPT !.metas =
                Append(@, [solution |-> solution, initial |-> solution, writes |-> 0])]]

\* sol_diagnostic::Result, with the abort of a panic!/todo!/unwrap as a third
\* outcome.
Ok(term, type, st) ==
    [tag |-> "Ok", term |-> term, type |-> type, error |-> NoError, st |-> st]
Fail(error, st) ==
    [tag |-> "Err", term |-> NoTerm, type |-> NoValue, error |-> error, st |-> st]
Abort(message, st) ==
    [tag |-> "Panic", term |-> NoTerm, type |-> NoValue,
     error |-> [kind |-> message], st |-> st]

UnsupportedTermError(loc) == [kind |-> "UnsupportedTerm", location |-> loc]
EvalError == [kind |-> "EvalError"]
UnresolvedReference(name) == [kind |-> "UnresolvedReference", name |-> name]
TypeMismatch(expected, inferred) ==
    [kind |-> "TypeMismatch", expected |-> expected, inferred |-> inferred]

\* The state after a thir_eval whose calls are given.
Logged(st, calls) == [st EXCEPT !.evals = @ \o calls]

\* ---- unification
\* Solve a cell: an unsolved cell takes the value; a solved cell rejects the
\* attempt and keeps its solution.
solve_meta(cells, m, value) ==
    IF cells[m].solution = NoSolution
    THEN [ok |-> TRUE,
          metas |-> [cells EXCEPT ![m].solution = value, ![m].writes = @ + 1]]
    ELSE [ok |-> FALSE, metas |-> cells]

Unlocated(value) == IF value.v = "Location" THEN value.value ELSE value

RECURSIVE unify(_, _, _, _)
\* unify(lvl, a, b): structural equality up to evaluation; a flexible
\* metavariable unifies with a value by solving itself to it.
unify(lvl, lhs, rhs, cells) ==
    Bind(Unlocated(lhs), LAMBDA a :
    Bind(Unlocated(rhs), LAMBDA b :
    CASE a.v = "Flexible" /\ b.v = "Flexible" /\ a.meta = b.meta ->
           [ok |-> TRUE, metas |-> cells]
      [] a.v = "Flexible" -> solve_meta(cells, a.meta, b)
      [] b.v = "Flexible" -> solve_meta(cells, b.meta, a)
      [] a.v = "U" /\ b.v = "U" -> [ok |-> TRUE, metas |-> cells]
      [] a.v = "Constructor" /\ b.v = "Constructor" ->
           [ok |-> a.kind = b.kind, metas |-> cells]
      [] a.v = "Rigid" /\ b.v = "Rigid" ->
           [ok |-> a.lvl = b.lvl /\ a.spine = b.spine, metas |-> cells]
      [] a.v = "Pi" /\ b.v = "Pi" ->
           IF a.icit # b.icit THEN [ok |-> FALSE, metas |-> cells]
           ELSE Bind(unify(lvl, a.domain, b.domain, cells), LAMBDA d :
                IF ~d.ok THEN d
                ELSE unify(lvl + 1,
                           apply(a.codomain, new_var(lvl)).v,
                           apply(b.codomain, new_var(lvl)).v,
                           d.metas))
      [] OTHER -> [ok |-> a = b, metas |-> cells]))

\* elaboration::unify_catch(db, ctx, expected, inferred): a failed
\* unification is reported as a type mismatch; nothing is returned.
unify_catch(ctx, expected, inferred, st) ==
    Bind(unify(ctx.lvl, expected, inferred, st.metas), LAMBDA r :
    IF r.ok THEN [st EXCEPT !.metas = r.metas]
    ELSE [st EXCEPT !.metas = r.metas,
                    !.diags = Append(@, TypeMismatch(expected, inferred))])

RECURSIVE insert(_, _, _, _)
\* elaboration::insert(db, ctx, term, type): apply the term to a fresh
\* metavariable for every leading implicit Pi of its type.
insert(ctx, term, type, st) ==
    IF type.v = "Pi" /\ type.icit = "Implicit"
    THEN Bind(MetaVarNew(st, NoSolution), LAMBDA m :
         Bind(apply(type.codomain, VFlexible(m.meta, << >>)), LAMBDA r :
         insert(ctx, TApp(term, TInsertedMeta(m.meta), "Implicit"), r.v,
                Logged(m.st, r.calls))))
    ELSE Ok(term, type, st)

RECURSIVE LookupBinding(_, _, _)
LookupBinding(bindings, i, name) ==
    IF i = 0 THEN NoValue
    ELSE IF bindings[i].name = name THEN bindings[i].type
    ELSE LookupBinding(bindings, i - 1, name)

\* find_reference_type(db, ctx, path): the type bound for a name, innermost
\* binding first.
find_reference_type(ctx, name, st) ==
    LET type == LookupBinding(ctx.bindings, Len(ctx.bindings), name)
    IN  IF type = NoValue THEN Fail(UnresolvedReference(name), st)
        ELSE Ok(NoTerm, type, st)

\* infer_constructor(db, ctx, constructor): the type of a literal.
infer_constructor(ctx, constructor, st) ==
    Ok(NoTerm,
       VConstructor(CASE constructor.kind \in {"True", "False"} -> "BooleanType"
                      [] constructor.kind = "String" -> "StringType"
                      [] OTHER -> "IntType(true,32)",
                    constructor.location),
       st)

\* ---- bidirectional elaboration (sol-thir-lowering)
BuiltinTypes ==
    {"Universe", "This", "Unit", "String", "Bool", "Nat", "Int8", "UInt8", "Int16",
     "UInt16", "Int32", "UInt32", "Int64", "UInt64"}

ConstructorKindOf(def) ==
    CASE def = "Unit" -> "UnitType"
      [] def = "String" -> "StringType"
      [] def = "Bool" -> "BooleanType"
      [] def = "Nat" -> "NatType"
      [] def = "Int8" -> "IntType(true,8)"
      [] def = "UInt8" -> "IntType(false,8)"
      [] def = "Int16" -> "IntType(true,16)"
      [] def = "UInt16" -> "IntType(false,16)"
      [] def = "Int32" -> "IntType(true,32)"
      [] def = "UInt32" -> "IntType(false,32)"
      [] def = "Int64" -> "IntType(true,64)"
      [] def = "UInt64" -> "IntType(false,64)"

\* create_from_type(definition, location); This stops at todo!().
create_from_type(def, loc, st) ==
    CASE def = "Universe" -> Ok(TU, NoValue, st)
      [] def = "This" -> Abort("handle: error", st)
      [] OTHER -> Ok(TConstructor(ConstructorKindOf(def), loc), NoValue, st)

\* Mutant of type_hole: the metavariable is created with a solution.
type_hole_solved(st) ==
    Bind(MetaVarNew(st, VU), LAMBDA m :
    Ok(TInsertedMeta(m.meta), NoValue, m.st))

\* type_hole()
type_hole(st) ==
    Bind(MetaVarNew(st, NoSolution), LAMBDA m :
    Ok(TInsertedMeta(m.meta), NoValue, m.st))

\* expected_lam_pi: todo!("handle: error")
expected_lam_pi(ctx, cur, type, st) == Abort("handle: error", st)

RECURSIVE thir_check(_, _, _, _)
RECURSIVE thir_infer(_, _, _)
RECURSIVE lam_pi(_, _, _, _, _)
RECURSIVE lam_thir_check(_, _, _, _, _)
RECURSIVE implicit_fun_eta(_, _, _, _)
RECURSIVE term_equality(_, _, _, _)
RECURSIVE infer_lam(_, _, _)
RECURSIVE InferPiParameters(_, _, _, _, _)
RECURSIVE db(_, _, _, _, _)

\* db.thir_check(ctx, expr, type) and db.thir_infer(ctx, expr): the queries, as
\* the elaborator calls them on the database.
db(query, ctx, e, type_repr, st) ==
    IF query = "thir_check" THEN thir_check(ctx, e, type_repr, st)
    ELSE thir_infer(ctx, e, st)

\* Mutant of lam_pi: the lambda is tagged with the implicitness handed down by
\* the caller, not with that of the Pi it is checked against.
lam_pi_caller_icit(ctx, lam, pi, icit, st) ==
    IF lam.c # "Lam" THEN Abort("handle: no parameters", st)
    ELSE
    Bind(create_new_value(ctx, lam.definition, pi.domain), LAMBDA inner_ctx :
    Bind(apply(pi.codomain, new_var(ctx.lvl)), LAMBDA applied :
    IF applied.v = VError THEN Fail(EvalError, Logged(st, applied.calls))
    ELSE
    Bind(lam_thir_check(inner_ctx, lam.value, applied.v, icit,
                        Logged(st, applied.calls)), LAMBDA elab_term :
    IF elab_term.tag # "Ok" THEN elab_term
    ELSE Ok(TLam(lam.definition, icit, elab_term.term), NoValue, elab_term.st))))

\* Mutant of lam_pi: the codomain is applied to the variable of the level read
\* from the inner context.
lam_pi_inner_lvl(ctx, lam, pi, icit, st) ==
    IF lam.c # "Lam" THEN Abort("handle: no parameters", st)
    ELSE
    Bind(create_new_value(ctx, lam.definition, pi.domain), LAMBDA inner_ctx :
    Bind(apply(pi.codomain, new_var(inner_ctx.lvl)), LAMBDA applied :
    IF applied.v = VError THEN Fail(EvalError, Logged(st, applied.calls))
    ELSE
    Bind(lam_thir_check(inner_ctx, lam.value, applied.v, icit,
                        Logged(st, applied.calls)), LAMBDA elab_term :
    IF elab_term.tag # "Ok" THEN elab_term
    ELSE Ok(TLam(lam.definition, pi.icit, elab_term.term), NoValue, elab_term.st))))

lam_pi(ctx, lam, pi, icit, st) ==
    IF lam.c # "Lam" THEN Abort("handle: no parameters", st)
    ELSE
    Bind(create_new_value(ctx, lam.definition, pi.domain), LAMBDA inner_ctx :
    Bind(apply(pi.codomain, new_var(ctx.lvl)), LAMBDA applied :
    IF applied.v = VError THEN Fail(EvalError, Logged(st, applied.calls))
    ELSE
    Bind(lam_thir_check(inner_ctx, lam.value, applied.v, icit,
                        Logged(st, applied.calls)), LAMBDA elab_term :
    IF elab_term.tag # "Ok" THEN elab_term
    ELSE Ok(TLam(lam.definition, pi.icit, elab_term.term), NoValue, elab_term.st))))

lam_thir_check(ctx, cur, type_repr, icit, st) ==
    IF cur.c = "Lam" /\ type_repr.v = "Pi"
    THEN lam_pi(ctx, cur, type_repr, icit, st)
    ELSE IF cur.c = "Expr" /\ type_repr.v = "Pi" /\ type_repr.icit = "Implicit"
    THEN implicit_fun_eta(ctx, cur.expr, type_repr, st)
    ELSE IF cur.c = "Lam"
    THEN expected_lam_pi(ctx, cur, type_repr, st)
    ELSE db("thir_check", ctx, cur.expr, type_repr, st)

\* CASE implicit-fun-n; pi.name.unwrap() stops on a Pi without a name.
implicit_fun_eta(ctx, value, pi, st) ==
    IF pi.name = NoName THEN Abort("unwrap on None", st)
    ELSE
    Bind(insert_new_binder(ctx, pi.name, pi.domain), LAMBDA inner_ctx :
    Bind(apply(pi.codomain, new_var(ctx.lvl)), LAMBDA applied :
    IF applied.v = VError THEN Fail(EvalError, Logged(st, applied.calls))
    ELSE
    Bind(db("thir_check", inner_ctx, value, applied.v, Logged(st, applied.calls)),
         LAMBDA elab_term :
    IF elab_term.tag # "Ok" THEN elab_term
    ELSE Ok(TLam(pi.name, "Implicit", elab_term.term), NoValue, elab_term.st))))

\* Mutant of term_equality: a failed unification is the failure of the check.
term_equality_strict(ctx, e, expected, st) ==
    Bind(db("thir_infer", ctx, e, NoValue, st), LAMBDA inferred :
    IF inferred.tag # "Ok" THEN inferred
    ELSE
    Bind(insert(ctx, inferred.term, inferred.type, inferred.st), LAMBDA inserted :
    Bind(unify_catch(ctx, expected, inserted.type, inserted.st), LAMBDA unified :
    IF unified.diags # inserted.st.diags
    THEN Fail(TypeMismatch(expected, inserted.type), unified)
    ELSE Ok(inserted.term, NoValue, unified))))

\* CASE term_equality
term_equality(ctx, e, expected, st) ==
    Bind(db("thir_infer", ctx, e, NoValue, st), LAMBDA inferred :
    IF inferred.tag # "Ok" THEN inferred
    ELSE
    Bind(insert(ctx, inferred.term, inferred.type, inferred.st), LAMBDA inserted :
    Ok(inserted.term, NoValue,
       unify_catch(ctx, expected, inserted.type, inserted.st))))

\* The arms are tried in the order of the match.
thir_check(ctx, e, type_repr, st) ==
    IF e.e = "Lam" /\ type_repr.v = "Pi"
    THEN lam_pi(ctx, new_curried_function(e), type_repr, type_repr.icit, st)
    ELSE IF type_repr.v = "Pi" /\ type_repr.icit = "Implicit"
    THEN implicit_fun_eta(ctx, e, type_repr, st)
    ELSE IF e.e = "Hole"
    THEN type_hole(st)
    ELSE term_equality(ctx, e, type_repr, st)

\* Mutant of infer_lam: the Pi is formed over U, not over the type the parameter
\* is bound to.
infer_lam_domain_u(ctx, fun, st) ==
    IF fun.c = "Lam"
    THEN Bind(ValueDefault, LAMBDA domain_type :
         Bind(create_new_value(ctx, fun.definition, domain_type),
              LAMBDA codomain_ctx :
         Bind(infer_lam(codomain_ctx, fun.value, st), LAMBDA codomain :
         IF codomain.tag # "Ok" THEN codomain
         ELSE
         Bind(TLam(fun.definition, "Explicit", codomain.term), LAMBDA term :
         Bind(quote(ctx.lvl, codomain.type), LAMBDA quoted :
         IF quoted = NoTerm THEN Fail(EvalError, codomain.st)
         ELSE Ok(term,
                 VPi(fun.definition, "Explicit", VU,
                     Closure(ctx.locals, quoted)),
                 codomain.st))))))
    ELSE thir_infer(ctx, fun.expr, st)

infer_lam(ctx, fun, st) ==
    IF fun.c = "Lam"
    THEN Bind(ValueDefault, LAMBDA domain_type :
         Bind(create_new_value(ctx, fun.definition, domain_type),
              LAMBDA codomain_ctx :
         Bind(infer_lam(codomain_ctx, fun.value, st), LAMBDA codomain :
         IF codomain.tag # "Ok" THEN codomain
         ELSE
         Bind(TLam(fun.definition, "Explicit", codomain.term), LAMBDA term :
         Bind(quote(ctx.lvl, codomain.type), LAMBDA quoted :
         IF quoted = NoTerm THEN Fail(EvalError, codomain.st)
         ELSE Ok(term,
                 VPi(fun.definition, "Explicit", domain_type,
                     Closure(ctx.locals, quoted)),
                 codomain.st))))))
    ELSE thir_infer(ctx, fun.expr, st)

\* Mutant of InferPiParameters: a parameter whose type fails to check is left
\* out of the Pi.
InferPiParameters_skip(ctx, parameters, i, codomain, st) ==
    IF i > Len(parameters) THEN Ok(codomain, VU, st)
    ELSE Bind(db("thir_check", ctx, parameters[i].parameter_type, VU, st),
              LAMBDA domain :
         IF domain.tag # "Ok"
         THEN InferPiParameters(ctx, parameters, i + 1, codomain, st)
         ELSE InferPiParameters(ctx, parameters, i + 1,
                  TPi(parameters[i].name,
                      IF parameters[i].is_implicit THEN "Implicit" ELSE "Explicit",
                      domain.term, codomain),
                  domain.st))

\* The loop of the Pi case: each parameter, in declaration order, wraps the
\* codomain accumulated so far.
InferPiParameters(ctx, parameters, i, codomain, st) ==
    IF i > Len(parameters) THEN Ok(codomain, VU, st)
    ELSE Bind(db("thir_check", ctx, parameters[i].parameter_type, VU, st),
              LAMBDA domain :
         IF domain.tag # "Ok" THEN domain
         ELSE InferPiParameters(ctx, parameters, i + 1,
                  TPi(parameters[i].name,
                      IF parameters[i].is_implicit THEN "Implicit" ELSE "Explicit",
                      domain.term, codomain),
                  domain.st))

thir_infer(ctx, e, st) ==
    CASE e.e \in {"Empty", "Error", "Match", "Sigma"} ->
           Fail(UnsupportedTermError(e.loc), st)
      [] e.e = "Path" ->
           Bind(TConstructor("Reference " \o e.name, e.loc), LAMBDA constructor :
           Bind(find_reference_type(ctx, e.name, st), LAMBDA found :
           IF found.tag # "Ok" THEN found
           ELSE Ok(constructor, found.type, found.st)))
      [] e.e = "Literal" ->
           Bind(TConstructor(e.value, e.loc), LAMBDA constructor :
           Bind(infer_constructor(ctx, constructor, st), LAMBDA inferred :
           IF inferred.tag # "Ok" THEN inferred
           ELSE Ok(constructor, inferred.type, inferred.st)))
      [] e.e = "Type" ->
           Bind(create_from_type(e.definition, e.loc, st), LAMBDA made :
           IF made.tag # "Ok" THEN made
           ELSE Ok(made.term, VU, st))
      [] e.e = "Ann" ->
           Bind(db("thir_check", ctx, e.type_rep, VU, st), LAMBDA checked_type :
           IF checked_type.tag # "Ok" THEN checked_type
           ELSE
           Bind(eval(ctx.locals, checked_type.term), LAMBDA actual_type :
           IF actual_type.v = VError
           THEN Fail(EvalError, Logged(checked_type.st, actual_type.calls))
           ELSE
           Bind(db("thir_check", ctx, e.value, actual_type.v,
                   Logged(checked_type.st, actual_type.calls)), LAMBDA term :
           IF term.tag # "Ok" THEN term
           ELSE Ok(term.term, actual_type.v, term.st))))
      [] e.e = "Call" -> Abort("not yet implemented", st)
      [] e.e = "Lam" -> infer_lam(ctx, new_curried_function(e), st)
      [] e.e = "Pi" ->
           Bind(db("thir_check", ctx, e.value, VU, st), LAMBDA codomain :
           IF codomain.tag # "Ok" THEN codomain
           ELSE InferPiParameters(ctx, e.parameters, 1, codomain.term, codomain.st))
      [] e.e = "Hole" ->
           Bind(MetaVarNew(st, NoSolution), LAMBDA m :
           Ok(TInsertedMeta(m.meta), VFlexible(m.meta, << >>), m.st))

\* ---- inputs of the elaborator
MaxMetas == 2

PiOf(name, icit, body) == VPi(name, icit, VU, Closure(<< >>, body))
ImplicitPis ==
    {PiOf("x", "Implicit", TU),
     PiOf("x", "Implicit", TVar(0)),
     PiOf(NoName, "Implicit", TU),
     PiOf("x", "Implicit", TPi("y", "Implicit", TU, TU)),
     PiOf("x", "Implicit", TPi("y", "Explicit", TU, TU)),
     PiOf("x", "Implicit", TVar(-1))}
ThirTypes ==
    {VU, VConstructor("IntType(true,32)", 0), VConstructor("BooleanType", 0),
     PiOf("x", "Explicit", TU), VLocation(0, PiOf("x", "Implicit", TU))}
    \cup ImplicitPis

ThirContexts == {EmptyContext, create_new_value(EmptyContext, "a", VU)}
\* The context lam_pi reaches for the body of `\A a -> ..` checked against
\* `(A : U) -> (a : A) -> ..`: the type of a is the variable A.
DependentContexts ==
    {create_new_value(create_new_value(EmptyContext, "A", VU), "a", new_var(0))}

LeafExprs ==
    {EEmpty(1), EError(1), EMatch(1), ESigma(1), EPath("a", 1), EPath("x", 1),
     ELiteral("True", 1), ECall(1), EHole(1)}
    \cup {EType(builtin, 1) : builtin \in BuiltinTypes}
PiExprs ==
    {EPi(<<EParameter("x", FALSE, EType("Universe", 2))>>, EType("Universe", 3), 1),
     EPi(<<EParameter("x", TRUE, EType("Universe", 2)),
           EParameter(NoName, FALSE, EType("Int32", 3))>>, EType("Universe", 4), 1),
     EPi(<<EParameter(NoName, TRUE, EType("Universe", 2))>>, EType("Universe", 3), 1),
     EPi(<<EParameter("x", FALSE, ESigma(2))>>, EType("Universe", 3), 1),
     EPi(<< >>, EType("Int32", 2), 1),
     EPi(<<EParameter("x", FALSE, EType("Universe", 2))>>, EEmpty(3), 1)}
AnnExprs ==
    {EAnn(ELiteral("True", 2), EType("Bool", 3), 1),
     EAnn(ELiteral("True", 2), EType("Int32", 3), 1),
     EAnn(EType("Int32", 2), EHole(3), 1),
     EAnn(EHole(2), EHole(3), 1),
     EAnn(ESigma(2), EType("Bool", 3), 1),
     EAnn(ELiteral("True", 2), EMatch(3), 1),
     EAnn(EType("Int32", 2),
          EPi(<<EParameter("x", TRUE, EType("Universe", 4))>>, EType("Universe", 5), 3), 1),
     EAnn(EType("Int32", 2),
          EPi(<<EParameter(NoName, TRUE, EType("Universe", 4))>>, EType("Universe", 5), 3),
          1)}
LamExprs ==
    {ELam(<<"x">>, EPath("x", 2), 1),
     ELam(<<"x">>, EType("Universe", 2), 1),
     ELam(<<"x">>, EHole(2), 1),
     ELam(<<"x">>, EAnn(ELiteral("True", 3), EType("Bool", 4), 2), 1),
     ELam(<<"x", "y">>, EPath("x", 2), 1),
     ELam(<<"x">>, ELam(<<"y">>, EPath("y", 3), 2), 1),
     ELam(<< >>, EType("Universe", 2), 1),
     ELam(<<"x">>, EError(2), 1),
     ELam(<<"x">>, EPath("a", 2), 1)}
ThirExprs == LeafExprs \cup PiExprs \cup AnnExprs \cup LamExprs

HoleExprs == {EHole(1), EAnn(EHole(2), EHole(3), 1)}
HoleTypes == {VU, PiOf("x", "Explicit", TU), PiOf("x", "Implicit", TU)}
\* The values unification is tried on: two closed types and the flexible
\* value of every metavariable created so far.
UnifyValues(cells) ==
    {VU, VConstructor("IntType(true,32)", 0)}
    \cup {VFlexible(m, << >>) : m \in 1..Len(cells)}

NbeEnvs == {<< >>, <<VU>>, <<new_var(0)>>, <<VU, new_var(1)>>}
NbeTerms ==
    {TU, TConstructor("BooleanType", 0), TVar(0), TVar(1), TInsertedMeta(1),
     TLam("x", "Explicit", TVar(0)), TLam("x", "Explicit", TVar(1)),
     TLam("x", "Implicit", TLam("y", "Explicit", TVar(1))),
     TPi("x", "Explicit", TConstructor("IntType(true,32)", 0), TVar(0)),
     TPi("x", "Explicit", TVar(0), TVar(1)),
     TPi("x", "Implicit", TU, TPi("y", "Explicit", TVar(0), TVar(1))),
     TPi("x", "Explicit", TPi("y", "Explicit", TU, TVar(0)), TU)}
NbeArgs == {VU, VConstructor("BooleanType", 0), new_var(2)}

\* ---- operations of the elaborator
IdleElab == [op |-> "idle"]
IdleNbe == [op |-> "idle"]
IdleThir == metas = << >> /\ elab = IdleElab /\ nbe = IdleNbe

\* db.thir_check(ctx, expr, type)
ThirCheck(ctx, e, type_repr) ==
    LET out == thir_check(ctx, e, type_repr, ThirState(metas))
    IN  /\ elab' = [op |-> "check", ctx |-> ctx, expr |-> e, type |-> type_repr,
                    before |-> metas, out |-> out]
        /\ metas' = out.st.metas
        /\ UNCHANGED nbe

\* db.thir_infer(ctx, expr)
ThirInfer(ctx, e) ==
    LET out == thir_infer(ctx, e, ThirState(metas))
    IN  /\ elab' = [op |-> "infer", ctx |-> ctx, expr |-> e, type |-> NoValue,
                    before |-> metas, out |-> out]
        /\ metas' = out.st.metas
        /\ UNCHANGED nbe

\* elaboration::unify_catch(db, ctx, expected, inferred)
UnifyCatch(ctx, expected, inferred) ==
    LET st == unify_catch(ctx, expected, inferred, ThirState(metas))
    IN  /\ elab' = [op |-> "unify", ctx |-> ctx, expected |-> expected,
                    inferred |-> inferred, before |-> metas, st |-> st]
        /\ metas' = st.metas
        /\ UNCHANGED nbe

\* db.thir_eval(env, term)
ThirEval(env, term) ==
    LET r == eval(env, term)
    IN  /\ nbe' = [op |-> "eval", env |-> env, term |-> term, value |-> r.v,
                   calls |-> r.calls]
        /\ UNCHANGED <<metas, elab>>

\* Inference of a lambda, for the Pi value it forms.
InferLam(ctx, e) ==
    LET out == thir_infer(ctx, e, ThirState(<< >>))
    IN  /\ out.tag = "Ok"
        /\ nbe' = [op |-> "infer_lam", ctx |-> ctx, expr |-> e, value |-> out.type,
                   calls |-> out.st.evals]
        /\ UNCHANGED <<metas, elab>>

ClosureOf(value) == IF value.v = "Pi" THEN value.codomain ELSE value.closure

\* Closure::apply on the closure of the Pi or Lam value formed last.
ApplyClosure(arg) ==
    /\ nbe.op # "idle"
    /\ nbe.value.v \in {"Pi", "Lam"}
    /\ LET r == apply(ClosureOf(nbe.value), arg)
       IN  nbe' = [op |-> "apply", closure |-> ClosureOf(nbe.value), arg |-> arg,
                   value |-> r.v, calls |-> r.calls]
    /\ UNCHANGED <<metas, elab>>

(***************************************************************************)
(* Specifications                                                          *)
(***************************************************************************)

\* The registry, its calls interleaved over the threads.
Next ==
    \/ \E t \in Threads, n \in RegNames, r \in RegReps :
          StartRegister(t, n, r) /\ UNCHANGED <<lowerVars, thirVars>>
    \/ \E t \in Threads : StartInitialize(t) /\ UNCHANGED <<lowerVars, thirVars>>
    \/ \E t \in Threads : Step(t) /\ UNCHANGED <<lowerVars, thirVars>>
    \/ \E n \in RegNames : Lookup(n) /\ UNCHANGED <<lowerVars, thirVars>>

\* Nothing registered, nothing called.
Init == InitRegistry /\ IdleLowering /\ IdleThir

Spec == Init /\ [][Next]_vars

\* The same calls, one at a time: a call starts only when no call is running.
NextSeq ==
    \/ \E t \in Threads, n \in RegNames, r \in RegReps :
          AllIdle /\ StartRegister(t, n, r) /\ UNCHANGED <<lowerVars, thirVars>>
    \/ \E t \in Threads :
          AllIdle /\ StartInitialize(t) /\ UNCHANGED <<lowerVars, thirVars>>
    \/ \E t \in Threads : Step(t) /\ UNCHANGED <<lowerVars, thirVars>>
    \/ \E n \in RegNames : Lookup(n) /\ UNCHANGED <<lowerVars, thirVars>>

SpecSeq == Init /\ [][NextSeq]_vars

\* One lowering call on a syntax tree.
NextLowering ==
    \/ CallExpr /\ UNCHANGED <<registryVars, thirVars>>
    \/ CallTypeExpr /\ UNCHANGED <<registryVars, thirVars>>

\* A syntax tree to lower, at a level and in a scope.
InitLower == InitRegistry /\ InitLowering /\ IdleThir

\* The registry behind the engine's memo: calls run one at a time, and callers
\* ask the database for the lookup queries between them.
NextMemo ==
    \/ \E t \in Threads, n \in RegNames, r \in RegReps :
          AllIdle /\ StartRegister(t, n, r) /\ UNCHANGED <<lowerVars, thirVars>>
    \/ \E t \in Threads :
          AllIdle /\ StartInitialize(t) /\ UNCHANGED <<lowerVars, thirVars>>
    \/ \E t \in Threads : Step(t) /\ UNCHANGED <<lowerVars, thirVars>>
    \/ \E query \in Queries, n \in RegNames :
          AllIdle /\ TrackedLookup(query, n) /\ UNCHANGED <<lowerVars, thirVars>>

SpecMemo == Init /\ [][NextMemo]_vars

SpecLowering == InitLower /\ [][NextLowering]_vars

\* One check or infer call of the elaborator, on a store without metavariables.
NextCheck ==
    \/ /\ elab.op = "idle"
       /\ \E ctx \in ThirContexts, e \in ThirExprs, t \in ThirTypes :
             ThirCheck(ctx, e, t)
       /\ UNCHANGED <<registryVars, lowerVars>>
    \/ /\ elab.op = "idle"
       /\ \E ctx \in ThirContexts, e \in ThirExprs : ThirInfer(ctx, e)
       /\ UNCHANGED <<registryVars, lowerVars>>

SpecCheck == Init /\ [][NextCheck]_vars

\* The life of the metavariable cells: holes create them, unification solves
\* them.
NextMeta ==
    \/ /\ Len(metas) < MaxMetas
       /\ \E e \in HoleExprs, t \in HoleTypes : ThirCheck(EmptyContext, e, t)
       /\ UNCHANGED <<registryVars, lowerVars>>
    \/ /\ Len(metas) < MaxMetas
       /\ \E e \in HoleExprs : ThirInfer(EmptyContext, e)
       /\ UNCHANGED <<registryVars, lowerVars>>
    \/ /\ \E a \in UnifyValues(metas), b \in UnifyValues(metas) :
             UnifyCatch(EmptyContext, a, b)
       /\ UNCHANGED <<registryVars, lowerVars>>

SpecMeta == Init /\ [][NextMeta]_vars

\* Evaluation: values are formed by thir_eval and by the inference of a
\* lambda, and their closures are applied.
NextEval ==
    \/ /\ \E env \in NbeEnvs, t \in NbeTerms : ThirEval(env, t)
       /\ UNCHANGED <<registryVars, lowerVars>>
    \/ /\ \E ctx \in ThirContexts \cup DependentContexts, e \in LamExprs :
             InferLam(ctx, e)
       /\ UNCHANGED <<registryVars, lowerVars>>
    \/ /\ \E arg \in NbeArgs : ApplyClosure(arg)
       /\ UNCHANGED <<registryVars, lowerVars>>

SpecEval == Init /\ [][NextEval]_vars

(***************************************************************************)
(* Properties                                                              *)
(***************************************************************************)

\* C1: first write wins under concurrency: the TypeRep stored for a Definition
\* is never replaced by a later writer, and the lookups of one name never
\* return two different representations.
StoredStable ==
    \A d \in DOMAIN type_definitions :
        d \in DOMAIN type_definitions' /\ type_definitions'[d] = type_definitions[d]
C1_FirstWriteWins ==
    /\ [][StoredStable]_vars
    /\ [](\A n \in RegNames : Cardinality({o \in observed : o[1] = n}) <= 1)

\* C2: reads never observe a half-initialized primitive: whenever
\* lookup_definition(name) is present, lookup_type_rep(name) is present too.
C2_NoHalfInitialized ==
    \A n \in AllNames : lookup_definition(n) # NoDef => lookup_type_rep(n) # NoRep

\* C3: registration is idempotent: each name has at most one Definition ever
\* created, and lookup_definition(name), once present, is that first Definition,
\* whatever register and initialize calls run and however they interleave.
C3_Idempotent ==
    \A n \in AllNames :
        /\ created[n] <= 1
        /\ (created[n] = 1) = (lookup_definition(n) = Def(n, 1))
        /\ (created[n] = 0) = (lookup_definition(n) = NoDef)
        /\ \A t \in Threads :
              (definition[t] # NoDef /\ call[t].name = n) => definition[t] = Def(n, 1)

\* Two calls for the same name have both passed the insert-or-get and hold the
\* same handle.
C3_Witness ==
    \E t, u \in Threads :
        /\ t # u
        /\ pc[t] = "return" /\ pc[u] = "return"
        /\ call[t].name = call[u].name
        /\ definition[t] = definition[u]
        /\ definition[t] = lookup_definition(call[t].name)
        /\ definition[t] # NoDef

\* C4: with calls made one after the other, lookup_type_rep(name) is the
\* representation of the first register call for that name, and is present as
\* soon as that call has returned.
C4_FirstRegistrationWins ==
    \A n \in AllNames :
        /\ lookup_type_rep(n) # NoRep => lookup_type_rep(n) = firstRep[n]
        /\ (AllIdle /\ firstRep[n] # NoRep) => lookup_type_rep(n) = firstRep[n]

\* A later register call with a different representation has passed its
\* contains_key test and the stored representation is still the first one.
C4_Witness ==
    \E t \in Threads :
        /\ pc[t] = "return"
        /\ call[t].kind = "register"
        /\ firstRep[call[t].name] # NoRep
        /\ call[t].repr # firstRep[call[t].name]
        /\ lookup_type_rep(call[t].name) = firstRep[call[t].name]


\* ---- helpers to read a lowering call's trace
RECURSIVE CountKind(_, _)
RECURSIVE CountKids(_, _, _)
CountKids(kids, i, k) ==
    IF i > Len(kids) THEN 0 ELSE CountKind(kids[i], k) + CountKids(kids, i + 1, k)
\* The number of nodes of kind k in a tree.
CountKind(tree, k) ==
    (IF tree.k = k THEN 1 ELSE 0) + CountKids(tree.kids, 1, k)

RECURSIVE PathPositions(_, _, _)
\* The spans of the Path nodes of a tree that spell `name`.
PathPositions(tree, pos, name) ==
    (IF tree.k = "Path" /\ tree.name = name THEN {pos} ELSE {})
        \cup UNION {PathPositions(tree.kids[i], Child(pos, i), name) :
                      i \in 1..Len(tree.kids)}

EventCount(ev, op, kind) ==
    Cardinality({i \in 1..Len(ev) : ev[i].op = op /\ ev[i].kind = kind})

RECURSIVE Balanced(_, _, _)
\* Every pop closes the innermost open fork, has its kind, and leaves the scope
\* chain the fork found; no fork stays open.
Balanced(ev, i, open) ==
    IF i > Len(ev) THEN open = << >>
    ELSE IF ev[i].op = "fork" THEN Balanced(ev, i + 1, Append(open, ev[i]))
    ELSE /\ open # << >>
         /\ open[Len(open)].kind = ev[i].kind
         /\ open[Len(open)].scope = ev[i].scope
         /\ Balanced(ev, i + 1, SubSeq(open, 1, Len(open) - 1))

ScopeKindOf(k) == IF k = "Lam" THEN "Lambda" ELSE k

\* C5: scope nesting discipline: lowering forks one child scope of the
\* construct's kind per lambda, pi and sigma, before its parameters, and pops it
\* afterwards, at every nesting depth: the current scope after a construct is
\* the current scope before it.
C5_ScopeNesting ==
    lw_out.fn # "none" =>
        LET ev == lw_out.st.ev
            tree == lw_in.tree
        IN  /\ lw_out.st.scope = lw_in.scope
            /\ Balanced(ev, 1, << >>)
            /\ \A k \in {"Lam", "Pi", "Sigma"} :
                 /\ EventCount(ev, "fork", ScopeKindOf(k)) = CountKind(tree, k)
                 /\ EventCount(ev, "pop", ScopeKindOf(k)) = CountKind(tree, k)
            /\ tree.k \in {"Lam", "Pi", "Sigma"} =>
                 /\ ev[1] = [op |-> "fork", kind |-> ScopeKindOf(tree.k),
                             scope |-> lw_in.scope]
                 /\ ev[Len(ev)] = [op |-> "pop", kind |-> ScopeKindOf(tree.k),
                                   scope |-> lw_in.scope]
            /\ tree.k = "Lam" =>
                 /\ lw_out.v.scope.kind = "Lambda"
                 /\ {tree.kids[1].kids[i].name : i \in 1..Len(tree.kids[1].kids)}
                      \subseteq lw_out.v.scope.names

\* A pi whose parameter list holds a lambda and whose body is a sigma has been
\* lowered: three scopes were forked and popped, two of them nested in the first.
C5_Witness ==
    /\ lw_out.fn = "expr"
    /\ lw_in.tree.k = "Pi"
    /\ CountKind(lw_in.tree, "Lam") = 1
    /\ CountKind(lw_in.tree, "Sigma") = 1
    /\ Len(lw_out.st.ev) = 6
    /\ lw_out.st.ev[2].op = "fork"
    /\ lw_out.st.scope = lw_in.scope

\* The three children of an `if`, lowered one after the other as if_expr does.
IfScrutinee ==
    solve("expr", lw_in.tree.kids[1], <<1>>, lw_in.level, NewState(lw_in.scope))
IfThen == solve("expr", lw_in.tree.kids[2], <<2>>, lw_in.level, IfScrutinee.st)
IfOtherwise == solve("expr", lw_in.tree.kids[3], <<3>>, lw_in.level, IfThen.st)

\* C8: if-desugaring: `if c then t else e` lowers to a Match of kind If on the
\* lowered c with exactly two arms, Literal(true) -> lowered t first and
\* Literal(false) -> lowered e second, whatever c, t and e are.
C8_IfDesugaring ==
    (lw_out.fn = "expr" /\ lw_in.tree.k = "If") =>
        /\ lw_out.v.e = "Match"
        /\ lw_out.v.kind = "If"
        /\ lw_out.v.scrutinee = IfScrutinee.v
        /\ Len(lw_out.v.clauses) = 2
        /\ lw_out.v.clauses[1].pattern = LiteralTrue
        /\ lw_out.v.clauses[1].value = IfThen.v
        /\ lw_out.v.clauses[2].pattern = LiteralFalse
        /\ lw_out.v.clauses[2].value = IfOtherwise.v

\* An `if` whose two branches lower to different expressions has been lowered.
C8_Witness ==
    /\ lw_out.fn = "expr"
    /\ lw_in.tree.k = "If"
    /\ lw_in.tree.kids[2].k = "Lam"
    /\ lw_in.tree.kids[3].k = "Path"
    /\ lw_out.v.clauses[1].value.e = "Lam"
    /\ lw_out.v.clauses[2].value.e = "Path"

\* The kind a path is qualified against at a level.
KindOfLevel(level) == IF level = "Expr" THEN "Function" ELSE "Type"

Unresolvable(name) ==
    /\ \A i \in 1..Len(lw_in.scope) : name \notin lw_in.scope[i].names
    /\ name \notin Globals(KindOfLevel(lw_in.level))

DiagnosticsAt(kind, pos) ==
    {i \in 1..Len(lw_out.st.diags) :
        lw_out.st.diags[i] = [kind |-> kind, label |-> pos]}

\* C9: unresolved name recovery: lowering a path with no local binding and no
\* global definition returns an Expr::Path whose Reference holds an unresolved
\* placeholder Definition, and emits exactly one Unresolved diagnostic, labelled
\* with the span of the path; this holds for every such path inside a larger tree.
C9_UnresolvedRecovery ==
    lw_out.fn # "none" =>
        /\ (lw_in.tree.k = "Path" /\ Unresolvable(lw_in.tree.name)) =>
             /\ lw_out.v.e = "Path"
             /\ lw_out.v.reference.definition.name = lw_in.tree.name
             /\ ~lw_out.v.reference.definition.resolved
             /\ lw_out.v.reference.location = << >>
             /\ lw_out.st.diags = <<[kind |-> "Unresolved", label |-> << >>]>>
        /\ \A pos \in PathPositions(lw_in.tree, << >>, "foo") :
             Cardinality(DiagnosticsAt("Unresolved", pos)) = 1

\* The undefined path `foo` has been lowered at the expression level.
C9_Witness ==
    /\ lw_out.fn = "expr"
    /\ lw_in.tree = PathN("foo")
    /\ lw_in.level = "Expr"
    /\ lw_out.v.e = "Path"
    /\ Len(lw_out.st.diags) = 1

\* ---- helpers to read an elaboration call
\* The metavariable a unification of two values tries to solve, 0 if none.
SolveTarget(expected, inferred) ==
    LET a == Unlocated(expected)
        b == Unlocated(inferred)
    IN  IF a.v = "Flexible" /\ b.v = "Flexible" /\ a.meta = b.meta THEN 0
        ELSE IF a.v = "Flexible" THEN a.meta
        ELSE IF b.v = "Flexible" THEN b.meta
        ELSE 0

Solved(cell) == cell.solution # NoSolution

\* One step keeps every solved cell as it is, and a unification that tries to
\* solve a solved cell reports a mismatch and changes no cell.
SolveOnceStep ==
    /\ Len(metas') >= Len(metas)
    /\ \A m \in 1..Len(metas) : Solved(metas[m]) => metas'[m] = metas[m]
    /\ elab'.op = "unify" =>
         LET m == SolveTarget(elab'.expected, elab'.inferred)
         IN  (m # 0 /\ Solved(metas[m])) =>
                 /\ metas' = metas
                 /\ elab'.st.diags =
                        <<TypeMismatch(elab'.expected, elab'.inferred)>>

C7_EtaRule ==
    (/\ elab.op = "check"
     /\ elab.expr.e # "Lam"
     /\ elab.type.v = "Pi"
     /\ elab.type.icit = "Implicit") =>
        LET pi == elab.type
            applied == apply(pi.codomain, new_var(elab.ctx.lvl))
            inner == thir_check(insert_new_binder(elab.ctx, pi.name, pi.domain),
                                elab.expr, applied.v,
                                Logged(ThirState(elab.before), applied.calls))
        IN  IF applied.v # VError /\ inner.tag = "Ok"
            THEN /\ elab.out.tag = "Ok"
                 /\ elab.out.term.t = "Lam"
                 /\ elab.out.term.icit = "Implicit"
                 /\ elab.out.term.body = inner.term
            ELSE elab.out.tag # "Ok"

RECURSIVE OutsideBinders(_)
\* The number of terms of a term that stand under no binder of it.
OutsideBinders(term) ==
    IF term.t = "Pi" THEN 1 + OutsideBinders(term.domain) ELSE 1

BodyOf(term) == IF term.t = "Pi" THEN term.codomain ELSE term.body

\* C10: NbE laziness: the value formed for a Pi or Lam keeps the body as a
\* closure of the current environment and the unevaluated term, and forming
\* it evaluates nothing under the binder; Closure::apply evaluates the body
\* in the captured environment extended, at its end, by exactly the applied
\* value.
C10_Laziness ==
    /\ (nbe.op = "eval" /\ nbe.term.t \in {"Pi", "Lam"}) =>
          /\ ClosureOf(nbe.value) = Closure(nbe.env, BodyOf(nbe.term))
          /\ Len(nbe.calls) = OutsideBinders(nbe.term)
          /\ \A i \in 1..Len(nbe.calls) : nbe.calls[i].env = nbe.env
    /\ (nbe.op = "infer_lam" /\ nbe.expr.parameters # << >>) =>
          LET fun == new_curried_function(nbe.expr)
              inner == infer_lam(create_new_value(nbe.ctx, fun.definition, ValueDefault),
                                 fun.value, ThirState(<< >>))
          IN  /\ nbe.value.v = "Pi"
              /\ nbe.value.codomain.env = nbe.ctx.locals
              /\ nbe.calls = inner.st.evals
    /\ nbe.op = "apply" =>
          LET captured == nbe.closure.env
          IN  /\ nbe.calls # << >>
              /\ nbe.calls[1] = EvalCall(Append(captured, nbe.arg), nbe.closure.expr)
              /\ Len(nbe.calls) = OutsideBinders(nbe.closure.expr)
              /\ \A i \in 1..Len(nbe.calls) :
                    /\ Len(nbe.calls[i].env) = Len(captured) + 1
                    /\ SubSeq(nbe.calls[i].env, 1, Len(captured)) = captured
                    /\ nbe.calls[i].env[Len(captured) + 1] = nbe.arg

\* The closure of a Pi formed in a non-empty environment, its body the bound
\* variable, has been applied: the body's value is the applied value.
C10_Witness ==
    /\ nbe.op = "apply"
    /\ nbe.closure.expr = TVar(0)
    /\ nbe.closure.env # << >>
    /\ nbe.value = nbe.arg
    /\ nbe.calls = <<EvalCall(Append(nbe.closure.env, nbe.arg), TVar(0))>>

RECURSIVE ReturnSites(_, _, _)
\* The spans of the Return nodes of a tree, each with whether the scope current
\* at it is a do-notation scope: a lambda, pi or sigma lowers its children in a
\* scope of its own, and so does a block, whose scope is a do-notation scope.
ReturnSites(tree, pos, in_do) ==
    (IF tree.k = "Return" THEN {[pos |-> pos, in_do |-> in_do]} ELSE {})
        \cup UNION {ReturnSites(tree.kids[i], Child(pos, i),
                                \/ tree.k = "Block"
                                \/ in_do /\ tree.k \notin {"Lam", "Pi", "Sigma"}) :
                      i \in 1..Len(tree.kids)}

\* C12: return outside do-notation: return_expr reports one
\* ReturnOutsideDoNotation diagnostic labelled with the return's location
\* exactly when the current scope is not a do-notation scope, and in both cases
\* returns a prefix Call with callee Pure and exactly one argument: the lowered
\* value, or the unit expression when the return has no value.
C12_ReturnOutsideDo ==
    lw_out.fn # "none" =>
        /\ \A site \in ReturnSites(lw_in.tree, << >>,
                                   lw_in.scope[Len(lw_in.scope)].kind = "DoNotation") :
             Cardinality(DiagnosticsAt("ReturnOutsideDoNotation", site.pos))
                 = IF site.in_do THEN 0 ELSE 1
        /\ lw_in.tree.k = "Return" =>
             /\ lw_out.v.e = "Call"
             /\ lw_out.v.kind = "Prefix"
             /\ lw_out.v.callee = "Pure"
             /\ lw_out.v.location = << >>
             /\ Len(lw_out.v.arguments) = 1
             /\ lw_out.v.arguments[1] =
                  IF lw_in.tree.kids = << >> THEN call_unit_expr(<< >>)
                  ELSE solve("expr", lw_in.tree.kids[1], Child(<< >>, 1), lw_in.level,
                             NewState(lw_in.scope)).v

\* A bare `return` has been lowered at the top of a file: one diagnostic at its
\* location, and Pure applied to the unit expression.
C12_Witness ==
    /\ lw_out.fn = "expr"
    /\ lw_in.tree = ReturnUnitN
    /\ lw_in.scope[1].kind = "File"
    /\ lw_out.st.diags = <<[kind |-> "ReturnOutsideDoNotation", label |-> << >>]>>
    /\ lw_out.v.callee = "Pure"
    /\ lw_out.v.arguments = <<call_unit_expr(<< >>)>>

\* The type left for the second parameter of a curried lambda checked against
\* a Pi: the codomain applied to the variable of the first.
InnerType(ctx, pi) == apply(pi.codomain, new_var(ctx.lvl)).v

\* C13: lam against non-Pi is an error: checking a lambda against an expected
\* type that is not a Pi is a recoverable failure of check, for a top-level
\* lambda passed to thir_check and for the inner parameter of a curried lambda
\* reached through lam_thir_check; it neither aborts nor returns a term.
C13_LamAgainstNonPi ==
    (/\ elab.op = "check"
     /\ elab.expr.e = "Lam"
     /\ \/ elab.type.v # "Pi"
        \/ /\ Len(elab.expr.parameters) >= 2
           /\ InnerType(elab.ctx, elab.type).v \notin {"Pi", "Error"})
        => elab.out.tag = "Err"

\* C14: lam against Pi: checking a lambda with first parameter p against
\* Pi(icit, A, B) in a context ctx binds p to A in a context one binder deeper,
\* checks the rest of the lambda against B applied to the rigid variable at
\* level ctx.lvl, and returns Lam(p, icit, body) with the implicitness of the
\* Pi, for explicit and implicit Pi alike; a further curried parameter checked
\* against a Pi codomain is a Lam with that Pi's implicitness in turn. A failure
\* of the rest is the outcome of the whole.
C14_LamAgainstPi ==
    (/\ elab.op = "check"
     /\ elab.expr.e = "Lam"
     /\ Len(elab.expr.parameters) >= 1
     /\ elab.type.v = "Pi") =>
        LET pi == elab.type
            p == elab.expr.parameters[1]
            var == VRigid(elab.ctx.lvl, << >>)
            inner_ctx == Context(elab.ctx.lvl + 1, Append(elab.ctx.locals, var),
                                 Append(elab.ctx.bindings,
                                        [name |-> p, type |-> pi.domain]))
            applied == apply(pi.codomain, var)
            rest == CurryFrom(elab.expr.parameters, 2, elab.expr.value)
            inner == lam_thir_check(inner_ctx, rest, applied.v, pi.icit,
                                    Logged(ThirState(elab.before), applied.calls))
        IN  IF applied.v # VError /\ inner.tag = "Ok"
            THEN /\ elab.out.tag = "Ok"
                 /\ elab.out.term = TLam(p, pi.icit, inner.term)
                 /\ elab.out.st = inner.st
                 /\ (Len(elab.expr.parameters) >= 2 /\ applied.v.v = "Pi") =>
                      /\ elab.out.term.body.t = "Lam"
                      /\ elab.out.term.body.name = elab.expr.parameters[2]
                      /\ elab.out.term.body.icit = applied.v.icit
            ELSE elab.out.tag # "Ok"

\* \x y -> x has been checked against {x : U} -> (y : U) -> U: an implicit
\* lambda around an explicit one around the reference to x.
C14_Witness ==
    /\ elab.op = "check"
    /\ elab.expr = ELam(<<"x", "y">>, EPath("x", 2), 1)
    /\ elab.type = PiOf("x", "Implicit", TPi("y", "Explicit", TU, TU))
    /\ elab.ctx = EmptyContext
    /\ elab.out.tag = "Ok"
    /\ elab.out.term = TLam("x", "Implicit",
                            TLam("y", "Explicit", TConstructor("Reference x", 2)))

\* C15: hole against any type: checking a Hole against any expected type, an
\* implicit Pi included, returns the term InsertedMeta(m) for a fresh unsolved
\* metavariable m, without a wrapper around it and without any unification.
C15_HoleAnyType ==
    (elab.op = "check" /\ elab.expr.e = "Hole") =>
        /\ elab.out.tag = "Ok"
        /\ elab.out.term = TInsertedMeta(Len(elab.before) + 1)
        /\ elab.out.st.metas =
             Append(elab.before,
                    [solution |-> NoSolution, initial |-> NoSolution, writes |-> 0])
        /\ elab.out.st.diags = << >>

\* The check is the fall-through case: neither a lambda against a Pi, nor
\* anything against an implicit Pi, nor a hole.
FallThrough(e, type) ==
    /\ ~(e.e = "Lam" /\ type.v = "Pi")
    /\ ~(type.v = "Pi" /\ type.icit = "Implicit")
    /\ e.e # "Hole"

\* C16: a mismatch does not abort: in the fall-through case check infers the
\* expression, inserts implicit arguments and unifies the inferred type with
\* the expected one; when unification fails, one type-mismatch diagnostic is
\* reported and check still returns successfully, with the inferred term.
C16_MismatchContinues ==
    (elab.op = "check" /\ FallThrough(elab.expr, elab.type)) =>
        LET inferred == thir_infer(elab.ctx, elab.expr, ThirState(elab.before))
            inserted == insert(elab.ctx, inferred.term, inferred.type, inferred.st)
            unified == unify(elab.ctx.lvl, elab.type, inserted.type,
                             inserted.st.metas)
        IN  inferred.tag = "Ok" =>
              /\ elab.out.tag = "Ok"
              /\ elab.out.term = inserted.term
              /\ elab.out.st.metas = unified.metas
              /\ elab.out.st.diags =
                   IF unified.ok THEN inserted.st.diags
                   ELSE Append(inserted.st.diags,
                               TypeMismatch(elab.type, inserted.type))

\* The literal True has been checked against Int32: the check returns the
\* literal's term, and a type mismatch between Int32 and Bool is reported.
C16_Witness ==
    /\ elab.op = "check"
    /\ elab.expr = ELiteral("True", 1)
    /\ elab.type = VConstructor("IntType(true,32)", 0)
    /\ elab.out.tag = "Ok"
    /\ elab.out.term = TConstructor("True", 1)
    /\ elab.out.st.diags =
         <<TypeMismatch(elab.type, VConstructor("BooleanType", 1))>>

UnsupportedKinds == {"Empty", "Error", "Match", "Sigma"}

\* The outcome is the failure UnsupportedTerm at the location of e: no term.
FailsAsUnsupported(out, e) ==
    /\ out.tag = "Err"
    /\ out.error = UnsupportedTermError(e.loc)
    /\ out.term = NoTerm

\* C17: unsupported terms fail, they do not abort: infer on an Empty, Error,
\* Match or Sigma expression returns the failure UnsupportedTerm with the
\* location of that expression, and the failure is the result of every
\* enclosing check or infer: the fall-through check, an annotation (of its type
\* and of its value), the body and a parameter type of a pi, the body of a
\* lambda, inferred or checked against a Pi.
C17_UnsupportedFails ==
    LET e == elab.expr
        st == ThirState(elab.before)
    IN  /\ (elab.op = "infer" /\ e.e \in UnsupportedKinds) =>
             elab.out = Fail(UnsupportedTermError(e.loc), st)
        /\ (elab.op = "check" /\ e.e \in UnsupportedKinds
                /\ FallThrough(e, elab.type)) =>
             elab.out = Fail(UnsupportedTermError(e.loc), st)
        /\ (elab.op = "infer" /\ e.e = "Ann" /\ e.type_rep.e \in UnsupportedKinds) =>
             FailsAsUnsupported(elab.out, e.type_rep)
        /\ (elab.op = "infer" /\ e.e = "Ann" /\ e.value.e \in UnsupportedKinds) =>
             LET type == thir_check(elab.ctx, e.type_rep, VU, st)
             IN  (/\ type.tag = "Ok"
                  /\ eval(elab.ctx.locals, type.term).v # VError
                  /\ FallThrough(e.value, eval(elab.ctx.locals, type.term).v)) =>
                     FailsAsUnsupported(elab.out, e.value)
        /\ (elab.op = "infer" /\ e.e = "Pi" /\ e.value.e \in UnsupportedKinds) =>
             FailsAsUnsupported(elab.out, e.value)
        /\ (elab.op = "infer" /\ e.e = "Pi" /\ e.value.e = "Type"
                /\ e.value.definition # "This"
                /\ Len(e.parameters) >= 1
                /\ e.parameters[1].parameter_type.e \in UnsupportedKinds) =>
             FailsAsUnsupported(elab.out, e.parameters[1].parameter_type)
        /\ (elab.op = "infer" /\ e.e = "Lam" /\ e.value.e \in UnsupportedKinds) =>
             FailsAsUnsupported(elab.out, e.value)
        /\ (elab.op = "check" /\ e.e = "Lam" /\ e.value.e \in UnsupportedKinds
                /\ Len(e.parameters) = 1 /\ elab.type.v = "Pi"
                /\ InnerType(elab.ctx, elab.type) # VError
                /\ FallThrough(e.value, InnerType(elab.ctx, elab.type))) =>
             FailsAsUnsupported(elab.out, e.value)

\* The pi (x : <sigma>) -> U has been inferred: the failure is that of the
\* parameter type, at its location.
C17_Witness ==
    /\ elab.op = "infer"
    /\ elab.expr = EPi(<<EParameter("x", FALSE, ESigma(2))>>, EType("Universe", 3), 1)
    /\ elab.out = Fail(UnsupportedTermError(2), ThirState(elab.before))

RECURSIVE PiBinders(_, _)
\* The binders of the n outermost Pi of a term, the outermost first.
PiBinders(term, n) ==
    IF n = 0 \/ term.t # "Pi" THEN << >>
    ELSE <<[name |-> term.name, icit |-> term.icit]>> \o PiBinders(term.codomain, n - 1)

\* The binders the parameters of a pi declare, in declaration order.
DeclaredBinders(parameters) ==
    [i \in 1..Len(parameters) |->
        [name |-> parameters[i].name,
         icit |-> IF parameters[i].is_implicit THEN "Implicit" ELSE "Explicit"]]

\* C18: pi inference folds the parameters right to left: for a pi with
\* parameters p1..pn, n >= 1, infer returns Pi(p1, Pi(p2, .. Pi(pn, body))): the
\* first declared parameter is the outermost binder, each Pi has the
\* implicitness and the binder name of its parameter, and the inferred type is U.
C18_PiFold ==
    (/\ elab.op = "infer"
     /\ elab.expr.e = "Pi"
     /\ Len(elab.expr.parameters) >= 1
     /\ elab.out.tag = "Ok") =>
        /\ elab.out.type = VU
        /\ PiBinders(elab.out.term, Len(elab.expr.parameters))
             = DeclaredBinders(elab.expr.parameters)

RECURSIVE LamChain(_, _, _)
\* A term is Lam(x_i, Explicit, Lam(x_i+1, Explicit, ..)) down to the last
\* parameter of names.
LamChain(term, names, i) ==
    \/ i > Len(names)
    \/ /\ term.t = "Lam"
       /\ term.name = names[i]
       /\ term.icit = "Explicit"
       /\ LamChain(term.body, names, i + 1)

RECURSIVE LamBody(_, _)
\* What n nested Lam of a term enclose.
LamBody(term, n) == IF n = 0 THEN term ELSE LamBody(term.body, n - 1)

RECURSIVE PiChain(_, _, _, _)
\* A value is the explicit Pi of x_i whose domain is the placeholder and whose
\* codomain, applied to the variable of its level, is the Pi of x_i+1, and so on
\* down to the last parameter of names.
PiChain(type, names, i, lvl) ==
    \/ i > Len(names)
    \/ /\ type.v = "Pi"
       /\ type.name = names[i]
       /\ type.icit = "Explicit"
       /\ type.domain = ValueDefault
       /\ PiChain(apply(type.codomain, new_var(lvl)).v, names, i + 1, lvl + 1)

RECURSIVE PiBody(_, _, _)
\* The codomain under n nested Pi values, each applied to its own variable.
PiBody(type, n, lvl) ==
    IF n = 0 THEN type
    ELSE PiBody(apply(type.codomain, new_var(lvl)).v, n - 1, lvl + 1)

C20_BuiltinTypesTotal ==
    (/\ elab.op = "infer"
     /\ elab.expr.e = "Type") =>
        /\ elab.expr.definition \in BuiltinTypes
        /\ elab.out.tag = "Ok"
        /\ elab.out.type = VU
        /\ elab.out.term = IF elab.expr.definition = "Universe" THEN TU
                           ELSE TConstructor(ConstructorKindOf(elab.expr.definition),
                                             elab.expr.loc)

\* An inner context is its caller's context one binder deeper: the level is the
\* caller's plus one and the bindings are the caller's plus the one pair.
OneBinderDeeper(ctx, inner, name, type) ==
    /\ inner.lvl = ctx.lvl + 1
    /\ inner.bindings = Append(ctx.bindings, [name |-> name, type |-> type])
    /\ Len(inner.locals) = Len(ctx.locals) + 1

\* A typed value `(v : T)`, whose elaboration evaluates T in the locals of the
\* context it is elaborated in.
IsAnnOfType(e) == e.e = "Ann" /\ e.type_rep.e = "Type" /\ e.type_rep.definition # "This"

\* The call that elaborated under one binder: a one-parameter lambda over a
\* typed value checked against a Pi (lam_pi), a typed value checked against a
\* named implicit Pi (implicit_fun_eta), or the inference of such a lambda
\* (infer_lam).
UnderOneBinder ==
    /\ elab.op \in {"check", "infer"}
    /\ elab.out.tag = "Ok"
    /\ \/ /\ elab.op = "check"
          /\ elab.type.v = "Pi"
          /\ InnerType(elab.ctx, elab.type).v # "Pi"
          /\ \/ /\ elab.expr.e = "Lam"
                /\ Len(elab.expr.parameters) = 1
                /\ IsAnnOfType(elab.expr.value)
             \/ /\ IsAnnOfType(elab.expr)
                /\ elab.type.icit = "Implicit"
       \/ /\ elab.op = "infer"
          /\ elab.expr.e = "Lam"
          /\ Len(elab.expr.parameters) = 1
          /\ IsAnnOfType(elab.expr.value)

\* C21: create_new_value and insert_new_binder give a new context, one level
\* and one binding deeper than the caller's, and the caller's context is as it
\* was: the level lam_pi, implicit_fun_eta and infer_lam read from ctx after the
\* extension is the old level, which is the level of the binder just added to
\* the inner context. The codomain is applied to the variable of the caller's
\* level, the body is elaborated in the caller's locals plus that same
\* variable, and the closure of an inferred Pi captures the caller's locals.
C21_ContextPersistence ==
    /\ elab.op \in {"check", "infer"} =>
          \A name \in {"x", "y"}, type \in {VU, ValueDefault} :
             /\ OneBinderDeeper(elab.ctx, create_new_value(elab.ctx, name, type),
                                name, type)
             /\ OneBinderDeeper(elab.ctx, insert_new_binder(elab.ctx, name, type),
                                name, type)
    /\ UnderOneBinder =>
          LET evals == elab.out.st.evals
              binder == new_var(elab.ctx.lvl)
          IN  /\ Len(evals) >= 1
              /\ evals[Len(evals)].env = Append(elab.ctx.locals, binder)
              /\ elab.op = "check" =>
                    evals[1] = EvalCall(Append(elab.type.codomain.env, binder),
                                        elab.type.codomain.expr)
              /\ elab.op = "infer" =>
                    /\ elab.out.type.v = "Pi"
                    /\ elab.out.type.codomain.env = elab.ctx.locals

C21_Witness ==
    /\ UnderOneBinder
    /\ elab.op = "check"
    /\ elab.expr.e = "Lam"
    /\ elab.ctx.lvl = 1
    /\ Len(elab.out.st.evals) = 2
    /\ elab.out.st.evals[2].env = <<new_var(0), new_var(1)>>

\* The free variables of a tree, in the order the lowering meets them: the
\* names without the sigil.
RECURSIVE FreeNames(_)
RECURSIVE FreeNamesOf(_, _)
FreeNamesOf(kids, i) ==
    IF i > Len(kids) THEN << >> ELSE FreeNames(kids[i]) \o FreeNamesOf(kids, i + 1)
FreeNames(tree) ==
    IF tree.k = "FreeVariable" THEN <<Symbol(utf8_text(tree), 2)>>
    ELSE FreeNamesOf(tree.kids, 1)

\* C22: free variables are type-level only: a `^name` is registered, without
\* its sigil, through insert_free_variable and lowers to the Path of the
\* Reference returned; at the level Expr the lowering reports a usage error for
\* it, at the level Type it reports nothing.
C22_FreeVariableLevels ==
    /\ lw_out.fn # "none" => lw_out.st.free = FreeNames(lw_in.tree)
    /\ (lw_out.fn # "none" /\ lw_in.tree.k = "FreeVariable") =>
        LET name == Symbol(utf8_text(lw_in.tree), 2)
        IN  /\ lw_out.st.free = <<name>>
            /\ lw_out.v.e = "Path"
            /\ lw_out.v.reference.definition.name = name
            /\ lw_out.v.reference.location = << >>
            /\ IF lw_in.level = "Expr" /\ lw_out.fn = "expr"
               THEN Len(lw_out.st.diags) = 1
               ELSE lw_out.st.diags = << >>

\* The children of an application that are blocks, in child order.
BlockChildren(tree) ==
    LET at == {i \in 1..Len(tree.kids) : tree.kids[i].k = "Block"}
    IN  [n \in 1..Cardinality(at) |->
            CHOOSE i \in at : Cardinality({j \in at : j < i}) = n - 1]

\* What lowering the block that is child i of an application gives, by itself.
BlockAlone(tree, i, level, scope) ==
    block(tree.kids[i], Child(<< >>, i), level, NewState(scope))

RECURSIVE BlockDiagnostics(_, _, _, _, _)
\* The diagnostics of the blocks of an application from the n-th on, each block
\* lowered by itself, one block after the other.
BlockDiagnostics(tree, blocks, n, level, scope) ==
    IF n > Len(blocks) THEN << >>
    ELSE BlockAlone(tree, blocks[n], level, scope).st.diags
            \o BlockDiagnostics(tree, blocks, n + 1, level, scope)

\* C23: last trailing block wins: the do_notation of the call lowered from an
\* application with k trailing blocks is None when k = 0, and otherwise it is
\* the lowering of the last block in child order and of no earlier one; every
\* block is still lowered, in child order, after the callee and the arguments:
\* each opens its own scope and leaves its diagnostics.
C23_LastBlockWins ==
    (lw_out.fn = "expr" /\ lw_in.tree.k = "App") =>
        LET tree == lw_in.tree
            blocks == BlockChildren(tree)
            k == Len(blocks)
            head == app_expr([tree EXCEPT !.kids = SubSeq(tree.kids, 1, 2)], << >>,
                             lw_in.level, NewState(lw_in.scope))
        IN  /\ lw_out.v.e = "Call"
            /\ lw_out.v.callee = head.v.callee
            /\ lw_out.v.arguments = head.v.arguments
            /\ k = 0 => lw_out.v.do_notation = "None"
            /\ k > 0 =>
                 /\ lw_out.v.do_notation =
                        BlockAlone(tree, blocks[k], lw_in.level, lw_in.scope).v
                 /\ lw_out.v.do_notation.location = Child(<< >>, blocks[k])
            /\ EventCount(lw_out.st.ev, "fork", "DoNotation") = k
            /\ lw_out.st.diags =
                  head.st.diags
                     \o BlockDiagnostics(tree, blocks, 1, lw_in.level, lw_in.scope)

\* An application with three trailing blocks has been lowered: the call holds
\* the third block, and the unresolved name of the first block was reported
\* before the one of the third.
C23_Witness ==
    /\ lw_out.fn = "expr"
    /\ lw_in.tree = AppN(PathN("f"), <<PathN("x")>>,
                         <<BlockN(<<PathN("foo")>>), BlockN(<< >>),
                           BlockN(<<PathN("foo")>>)>>)
    /\ lw_in.level = "Expr"
    /\ lw_in.scope = <<[kind |-> "File", names |-> {"x"}]>>
    /\ lw_out.v.do_notation.location = <<5>>
    /\ Len(lw_out.v.do_notation.statements) = 1
    /\ lw_out.st.diags = <<[kind |-> "Unresolved", label |-> <<3, 1>>],
                           [kind |-> "Unresolved", label |-> <<5, 1>>]>>

\* C24: queries are deterministic: at one database revision (no step of the
\* registry changes the revision: the bag is not an input of the database) a
\* primitive lookup with the same name returns the same result, whatever calls
\* ran before it.
C24_LookupDeterministic ==
    [][\A name \in AllNames :
          /\ lookup_type_rep(name)' = lookup_type_rep(name)
          /\ lookup_definition(name)' = lookup_definition(name)]_vars

\* A register or initialize call that registers the name has returned, and no
\* call is running.
Registered(name) == AllIdle /\ firstRep[name] # NoRep

\* C25: registration is visible to later lookups: once a register or
\* initialize call for a name has returned, every later
\* primitive_type_definition(name) and primitive_type_rep(name) a caller asks
\* the database for returns a present value, also when the same query was
\* asked for that name before the registration and returned absent.
C25_RegistrationVisible ==
    \A name \in RegNames :
        Registered(name) =>
            /\ Tracked("primitive_type_definition", name) # NoDef
            /\ Tracked("primitive_type_rep", name) # NoRep

\* C26: codomain closure round trip in lambda inference: for a lambda inferred
\* in ctx, with T the type inferred for what follows its first parameter in the
\* context extended with that parameter, the codomain closure of the returned
\* Pi captures ctx.locals and gives T back when it is applied to the variable
\* of the lambda's level: apply(closure, Rigid(ctx.lvl)) = T.
C26_ClosureRoundTrip ==
    (nbe.op = "infer_lam" /\ nbe.expr.parameters # << >>) =>
        LET fun == new_curried_function(nbe.expr)
            inner == infer_lam(create_new_value(nbe.ctx, fun.definition, ValueDefault),
                               fun.value, ThirState(<< >>))
        IN  /\ nbe.value.v = "Pi"
            /\ nbe.value.codomain.env = nbe.ctx.locals
            /\ apply(nbe.value.codomain, new_var(nbe.ctx.lvl)).v = inner.type

====
